---------------------------- MODULE Spec2Model ----------------------------
(***************************************************************************)
(* Code Sage: detection and aggregation engine.                            *)
(*                                                                         *)
(* The module models                                                       *)
(*   - the issue aggregator (core/aggregator.py): deduplicate_issues,      *)
(*     rank_issues and the helpers they use;                               *)
(*   - the analysis engine (core/engine.py) with the analyzers it drives   *)
(*     (core/analyzer.py, analyzers/python_analyzer.py,                    *)
(*     analyzers/javascript_analyzer.py) and the pattern matcher           *)
(*     (core/pattern_matcher.py), in sequential and in parallel mode.      *)
(*                                                                         *)
(* Strings of the program are TLA+ strings; formatted strings (f-strings)  *)
(* are built with \o and ToString exactly as the code concatenates them.   *)
(* A confidence c of the program is the integer c * ConfScale, and a       *)
(* priority score p of the program is the integer p * ConfScale.           *)
(***************************************************************************)
EXTENDS Integers, Sequences, FiniteSets, TLC

VARIABLES
    \* ---- aggregator harness (pure functions applied to drawn inputs)
    agg_in,      \* the list of issues handed to the aggregator
    agg_out,     \* the list the last aggregator call returned
    agg_prev,    \* the list the call before the last returned
    agg_op,      \* which call produced agg_out
    \* ---- one run of AnalysisEngine.analyze_path
    files,       \* discovered files: sequence of [path, content, readable]
    parallel,    \* config.analysis.parallel_analysis and len(files) > 1
    task,        \* per file: the position of its analyze_file call
    heap,        \* list objects: object id -> sequence of issues
    an_issues,   \* per analyzer instance: the object its self.issues names
    results,     \* the list `results` of _analyze_sequential/_analyze_parallel
    phase,       \* "analyzing" | "done"
    final,       \* result.file_analyses after analyze_path returned
    dispatched,  \* per file: how many times analyze_file was started
    totals,      \* the counts of the AnalysisResult analyze_path returned
    \* ---- a PatternMatcher and the last call made on it
    pm_matcher,  \* [rules, compiled]: self.rules and self._compiled_patterns
    pm_call,     \* the last call: its kind, its arguments and its result
    \* ---- the global AnalyzerRegistry and the last call made on it
    analyzers,   \* _registry._analyzers: the analyzers in registration order
    reg_call,    \* the last call: its kind, its argument and its result
    \* ---- filtering and grouping of issues (pure functions, drawn inputs)
    flt_in,      \* the list of issues handed to the call
    flt_call,    \* the last call: its kind, its arguments and its result
    \* ---- the configuration and the AI enrichment of the analyze command
    cli_cfg,     \* the Config object
    cli_in,      \* the list of issues handed to enrich_issues
    cli_call     \* the last call: its kind, its arguments and its result

aggVars == <<agg_in, agg_out, agg_prev, agg_op>>
engVars == <<files, parallel, task, heap, an_issues, results, phase, final,
             dispatched, totals>>
pmVars == <<pm_matcher, pm_call>>
regVars == <<analyzers, reg_call>>
fltVars == <<flt_in, flt_call>>
cliVars == <<cli_cfg, cli_in, cli_call>>
vars == <<aggVars, engVars, pmVars, regVars, fltVars, cliVars>>

-----------------------------------------------------------------------------
(* Bounds *)

MaxIssues == 3      \* longest issue list handed to the aggregator harness
ConfScale == 4      \* confidences are multiples of 1/ConfScale

-----------------------------------------------------------------------------
(* core/models.py *)

\* IssueSeverity: the enum values
Severities == {"critical", "high", "medium", "low", "info"}

\* IssueSeverity.__lt__: index in severity_order
severity_order == <<"info", "low", "medium", "high", "critical">>

\* severity_order.index(severity)
severity_index(severity) ==
    CHOOSE k \in 1..Len(severity_order) : severity_order[k] = severity

\* IssueCategory: the enum values
Categories == {"security", "bug", "code_smell", "type_error", "style",
               "performance", "best_practice", "duplication", "complexity",
               "maintainability"}

\* Issue(...) with the fields the engine and the aggregator read; location is
\* flattened to file_path / line_start.
Issue(id, title, descr, sev, cat, path, line, conf, fixable, rule) ==
    [id |-> id, title |-> title, description |-> descr,
     severity |-> sev, category |-> cat,
     file_path |-> path, line_start |-> line,
     confidence |-> conf, auto_fixable |-> fixable,
     rule_id |-> rule]

\* _generate_issue_id: md5 of f"{file_path}:{issue_type}:{line}", kept as the
\* hashed string itself (the digest is a function of that string only).
generate_issue_id(file_path, issue_type, line) ==
    file_path \o ":" \o issue_type \o ":" \o ToString(line)

-----------------------------------------------------------------------------
(* core/aggregator.py *)

\* _get_issue_signature: an f-string, fields joined by ":"
get_issue_signature(issue) ==
    issue.file_path \o ":" \o ToString(issue.line_start) \o ":"
        \o issue.title \o ":" \o issue.category

RECURSIVE dedup_loop(_, _, _)
\* the for loop of deduplicate_issues: rest = issues still to visit
dedup_loop(rest, unique_issues, seen_signatures) ==
    IF rest = <<>> THEN unique_issues
    ELSE LET issue == Head(rest)
             signature == get_issue_signature(issue)
         IN  IF signature \notin seen_signatures
             THEN dedup_loop(Tail(rest), Append(unique_issues, issue),
                             seen_signatures \cup {signature})
             ELSE dedup_loop(Tail(rest), unique_issues, seen_signatures)

RECURSIVE dedup_loop_forgetful(_, _, _)
\* a dedup whose seen set is cleared whenever a duplicate is dropped
dedup_loop_forgetful(rest, unique_issues, seen_signatures) ==
    IF rest = <<>> THEN unique_issues
    ELSE LET issue == Head(rest)
             signature == get_issue_signature(issue)
         IN  IF signature \notin seen_signatures
             THEN dedup_loop_forgetful(Tail(rest),
                                       Append(unique_issues, issue),
                                       seen_signatures \cup {signature})
             ELSE dedup_loop_forgetful(Tail(rest), unique_issues, {})

deduplicate_issues_forgetful(issues) == dedup_loop_forgetful(issues, <<>>, {})

\* IssueAggregator.deduplicate_issues
deduplicate_issues(issues) == dedup_loop(issues, <<>>, {})

\* rank_issues: severity_weights
severity_weights ==
    [s \in Severities |->
        CASE s = "critical" -> 100
          [] s = "high"     -> 75
          [] s = "medium"   -> 50
          [] s = "low"      -> 25
          [] s = "info"     -> 10]

\* rank_issues: category_weights
category_weights ==
    [c \in Categories |->
        CASE c = "security"        -> 20
          [] c = "bug"             -> 15
          [] c = "type_error"      -> 10
          [] c = "performance"     -> 8
          [] c = "best_practice"   -> 5
          [] c = "code_smell"      -> 3
          [] c = "style"           -> 1
          [] c = "duplication"     -> 2
          [] c = "complexity"      -> 4
          [] c = "maintainability" -> 3]

\* a priority that leaves the confidence out
calculate_priority_no_confidence(issue) ==
    (severity_weights[issue.severity] + category_weights[issue.category])
        * ConfScale
    + (IF issue.auto_fixable THEN 5 * ConfScale ELSE 0)

\* a priority whose bonus for auto-fixable issues is 30 instead of 5
calculate_priority_large_bonus(issue) ==
    (severity_weights[issue.severity] + category_weights[issue.category])
        * issue.confidence
    + (IF issue.auto_fixable THEN 30 * ConfScale ELSE 0)

\* rank_issues.calculate_priority, times ConfScale
calculate_priority(issue) ==
    (severity_weights[issue.severity] + category_weights[issue.category])
        * issue.confidence
    + (IF issue.auto_fixable THEN 5 * ConfScale ELSE 0)

\* the position sorted(issues, key=calculate_priority, reverse=True) gives
\* the issue at position i of its input: behind every issue of higher
\* priority and behind the issues of equal priority that precede it in the
\* input (Python's sort is stable, and reverse=True keeps the input order of
\* equal keys)
sorted_position(issues, i) ==
    1 + Cardinality({j \in 1..Len(issues) :
            \/ calculate_priority(issues[j]) > calculate_priority(issues[i])
            \/ /\ calculate_priority(issues[j]) = calculate_priority(issues[i])
               /\ j < i})

\* a sort that puts an issue behind the issues of equal priority that follow
\* it in the input (equal keys come out reversed)
sorted_position_reversed_ties(issues, i) ==
    1 + Cardinality({j \in 1..Len(issues) :
            \/ calculate_priority(issues[j]) > calculate_priority(issues[i])
            \/ /\ calculate_priority(issues[j]) = calculate_priority(issues[i])
               /\ j > i})

\* a ranking that is sorted but not stable
rank_issues_unstable(issues) ==
    [k \in 1..Len(issues) |->
        issues[CHOOSE i \in 1..Len(issues) :
                   sorted_position_reversed_ties(issues, i) = k]]

\* a ranking that leaves the issues in their input order
rank_issues_input_order(issues) == issues

\* IssueAggregator.rank_issues: sorted(issues, key=calculate_priority,
\* reverse=True)
rank_issues(issues) ==
    [k \in 1..Len(issues) |->
        issues[CHOOSE i \in 1..Len(issues) : sorted_position(issues, i) = k]]

\* the outcome of a call: a returned value or a raised exception
Returned_value(v) == [raised |-> "none", value |-> v]
Raised_exception(e) == [raised |-> e, value |-> <<>>]

\* [i for i in filtered if i.category in categories]
filter_by_category(issues, categories) ==
    LET Test(i) == i.category \in categories IN SelectSeq(issues, Test)

\* [i for i in filtered if i.auto_fixable]
filter_auto_fixable(issues) ==
    LET Test(i) == i.auto_fixable IN SelectSeq(issues, Test)

\* IssueAggregator.filter_issues. min_severity is "none" for None;
\* categories is [given, values], given = FALSE for None.
\* IssueSeverity defines __lt__ only: `i.severity >= min_severity` finds
\* neither __ge__ nor a reflected __le__, so the first comprehension raises
\* TypeError as soon as it evaluates its condition for an issue.  A list of
\* categories that is None or empty is falsy and filters nothing.
filter_issues(issues, min_severity, categories, auto_fixable_only) ==
    IF min_severity # "none" /\ issues # <<>>
    THEN Raised_exception("TypeError")
    ELSE LET by_category ==
                 IF categories.given /\ categories.values # {}
                 THEN filter_by_category(issues, categories.values)
                 ELSE issues
         IN  Returned_value(IF auto_fixable_only
                            THEN filter_auto_fixable(by_category)
                            ELSE by_category)

\* the matching characters SequenceMatcher(None, a, b) finds (the sum of the
\* sizes of get_matching_blocks()), for the titles and descriptions of the
\* drawn issues
matching_chars(a, b) ==
    IF a = b THEN Len(a)
    ELSE CASE a = "Function too long" /\ b = "Function is too long" -> 17
           [] a = "Function is too long" /\ b = "Function too long" -> 17
           [] a = "Function too long" /\ b = "Unused import" -> 2
           [] a = "Unused import" /\ b = "Function too long" -> 3
           [] a = "Function is too long" /\ b = "Unused import" -> 4
           [] a = "Unused import" /\ b = "Function is too long" -> 4
           [] a \in {"Function is 80 lines long",
                      "Function foo is 80 lines long",
                      "Function is 80 lines long (max 50)"}
                 /\ b \in {"Function is 80 lines long",
                           "Function foo is 80 lines long",
                           "Function is 80 lines long (max 50)"} -> 25

\* SequenceMatcher(None, a, b).ratio() < self.similarity_threshold, the
\* ratio being 2.0 * M / (len(a) + len(b)) and the threshold 0.8
ratio_below_threshold(a, b) ==
    10 * matching_chars(a, b) < 4 * (Len(a) + Len(b))

\* IssueAggregator._are_similar
are_similar(issue1, issue2) ==
    /\ issue1.category = issue2.category
    /\ issue1.severity = issue2.severity
    /\ ~ratio_below_threshold(issue1.title, issue2.title)
    /\ ~ratio_below_threshold(issue1.description, issue2.description)

RECURSIVE similar_members_any_member(_, _, _, _, _)
\* an inner loop that lets an issue join when it is similar to any member
\* the group has so far
similar_members_any_member(issues, issue1, j, group, processed) ==
    IF j > Len(issues) THEN [group |-> group, processed |-> processed]
    ELSE IF issues[j].id \in processed
    THEN similar_members_any_member(issues, issue1, j + 1, group, processed)
    ELSE IF \E k \in 1..Len(group) : are_similar(group[k], issues[j])
    THEN similar_members_any_member(issues, issue1, j + 1,
                                    Append(group, issues[j]),
                                    processed \cup {issues[j].id})
    ELSE similar_members_any_member(issues, issue1, j + 1, group, processed)

RECURSIVE similar_members(_, _, _, _, _)
\* the inner loop of find_similar_issues over issues[j..]: the group of
\* issue1 and the processed ids it ends with
similar_members(issues, issue1, j, group, processed) ==
    IF j > Len(issues) THEN [group |-> group, processed |-> processed]
    ELSE IF issues[j].id \in processed
    THEN similar_members(issues, issue1, j + 1, group, processed)
    ELSE IF are_similar(issue1, issues[j])
    THEN similar_members(issues, issue1, j + 1, Append(group, issues[j]),
                         processed \cup {issues[j].id})
    ELSE similar_members(issues, issue1, j + 1, group, processed)

RECURSIVE similar_loop(_, _, _, _)
\* the outer loop of find_similar_issues from position i on; similar_groups
\* is the dict as the sequence of its items [key, group] in insertion order
similar_loop(issues, i, similar_groups, processed) ==
    IF i > Len(issues) THEN similar_groups
    ELSE IF issues[i].id \in processed
    THEN similar_loop(issues, i + 1, similar_groups, processed)
    ELSE LET inner == similar_members(issues, issues[i], i + 1,
                                      <<issues[i]>>,
                                      processed \cup {issues[i].id})
         IN  similar_loop(issues, i + 1,
                 IF Len(inner.group) > 1
                 THEN Append(similar_groups,
                             [key |-> issues[i].id, group |-> inner.group])
                 ELSE similar_groups,
                 inner.processed)

\* IssueAggregator.find_similar_issues
find_similar_issues(issues) == similar_loop(issues, 1, <<>>, {})

-----------------------------------------------------------------------------
(* Aggregator harness: the inputs drawn for the aggregator's functions *)

\* file paths, titles and lines of the issues drawn for deduplication; a path
\* and a title may contain ":" (a title such as "Long Function: f" does)
DedupPaths == {"a.js", "a.js:3:b.js"}
DedupTitles == {"X", "b.js:7:X"}
DedupLines == {3, 7}
DedupCategories == {"bug", "style"}
DedupSeverities == {"high", "low"}

\* the severity varies only among the "bug" issues
DedupSeveritiesOf(c) == IF c = "bug" THEN DedupSeverities ELSE {"high"}

DedupUniverse ==
    UNION {{Issue(generate_issue_id(p, t, l), t, "d", s, c, p, l, ConfScale,
                  FALSE, "none") :
               p \in DedupPaths, t \in DedupTitles, l \in DedupLines,
               s \in DedupSeveritiesOf(c)} : c \in DedupCategories}

\* (severity, category, confidence, auto_fixable) of the issues drawn for
\* ranking: every severity, every category, and pairs of different issues
\* whose scores tie (85 = 75+10 = 75+5+5; 60 = (100+20)/2 = 50+10)
RankShapes ==
    {<<s, "bug", ConfScale, FALSE>> : s \in Severities}
    \cup {<<"medium", c, ConfScale, FALSE>> : c \in Categories}
    \cup {<<"high", "type_error", ConfScale, FALSE>>,
          <<"high", "best_practice", ConfScale, TRUE>>,
          <<"critical", "security", ConfScale \div 2, FALSE>>}

\* the k-th issue of a ranking input sits at line k of one file
RankIssue(shape, k) ==
    Issue(generate_issue_id("m.py", "chk", k), "T", "d", shape[1], shape[2],
          "m.py", k, shape[3], shape[4], "none")

\* the issue lists of length n drawn for the aggregator
AggInputs(n) ==
    [1..n -> DedupUniverse]
    \cup {[k \in 1..n |-> RankIssue(f[k], k)] : f \in [1..n -> RankShapes]}

MaxRanked == 2      \* longest list of confidence-1.0 issues handed to rank_issues

\* every severity, category and auto_fixable flag at confidence 1.0
ConfidentShapes ==
    {<<s, c, ConfScale, f>> : s \in Severities, c \in Categories,
                              f \in BOOLEAN}

AggInit ==
    /\ \E n \in 0..MaxIssues : agg_in \in AggInputs(n)
    /\ agg_out = <<>>
    /\ agg_prev = <<>>
    /\ agg_op = "input"

\* unique = aggregator.deduplicate_issues(agg_in)
Deduplicate ==
    /\ agg_op = "input"
    /\ agg_out' = deduplicate_issues(agg_in)
    /\ agg_prev' = agg_out
    /\ agg_op' = "dedup"
    /\ UNCHANGED <<agg_in, engVars, pmVars, regVars, fltVars, cliVars>>

\* aggregator.deduplicate_issues(unique): the function applied to its own
\* result
DeduplicateAgain ==
    /\ agg_op = "dedup"
    /\ agg_out' = deduplicate_issues(agg_out)
    /\ agg_prev' = agg_out
    /\ agg_op' = "dedup2"
    /\ UNCHANGED <<agg_in, engVars, pmVars, regVars, fltVars, cliVars>>

\* ranked = aggregator.rank_issues(agg_in)
Rank ==
    /\ agg_op = "input"
    /\ agg_out' = rank_issues(agg_in)
    /\ agg_prev' = agg_out
    /\ agg_op' = "rank"
    /\ UNCHANGED <<agg_in, engVars, pmVars, regVars, fltVars, cliVars>>

\* the harness that ranks issues of confidence 1.0
RankInit ==
    /\ \E n \in 0..MaxRanked :
          \E f \in [1..n -> ConfidentShapes] :
              agg_in = [k \in 1..n |-> RankIssue(f[k], k)]
    /\ agg_out = <<>>
    /\ agg_prev = <<>>
    /\ agg_op = "input"

RankNext == Rank

AggNext ==
    \/ Deduplicate
    \/ DeduplicateAgain
    \/ Rank

-----------------------------------------------------------------------------
(* core/pattern_matcher.py *)

\* A line of a file is one of these kinds (what the detectors can tell apart):
\*   "code"  a line no detector reacts to
\*   "pw"    password = "super_secret_123"
\*   "todo"  a TODO comment (# TODO, // TODO)
\*   "log"   console.log(x)
\*   "log2"  console.log(a); console.log(b)
\*   "try"   try: x = 1
\*   "bare"  except: x = 0, a bare handler; the parser accepts it only as a
\*           handler of the try statement before it
\*   "is5"   a comparison `x is 5`
\*   "bad"   a line the Python parser rejects (SyntaxError)
\*   "deep"  x = 1+1+...+1 with thousands of terms: ast.parse raises
\*           RecursionError, an Exception that is not a SyntaxError
\*   "mem"   x = ---...-1 with thousands of signs: ast.parse raises
\*           MemoryError, whose str() is empty
LineKinds == {"code", "pw", "todo", "log", "log2", "try", "bare", "is5",
              "bad", "deep", "mem"}

\* PatternRule(...): the rules of _load_default_rules, in catalog order; the
\* pattern is named by the rule it belongs to
PatternRule(id, name, message, pattern, sev, cat, languages, fixable) ==
    [id |-> id, name |-> name, message |-> message, pattern |-> pattern,
     severity |-> sev, category |-> cat, languages |-> languages,
     auto_fixable |-> fixable]

default_rules == <<
    PatternRule("hardcoded-password", "Hardcoded Password",
                "Hardcoded password detected. Use environment variables or secrets management.",
                "re:password", "critical", "security", {"python", "javascript", "typescript", "java"},
                FALSE),
    PatternRule("hardcoded-api-key", "Hardcoded API Key",
                "Hardcoded API key detected", "re:api-key", "critical",
                "security",
                {"python", "javascript", "typescript", "java", "go"}, FALSE),
    PatternRule("sql-string-concat", "SQL String Concatenation",
                "SQL injection vulnerability: Use parameterized queries",
                "re:sql", "high", "security",
                {"python", "javascript", "typescript", "java", "php"}, FALSE),
    PatternRule("debug-print", "Debug Print Statement",
                "Debug print statement should be removed or replaced with proper logging",
                "re:print", "low", "code_smell", {"python", "javascript", "typescript", "java"},
                TRUE),
    PatternRule("todo-comment", "TODO Comment",
                "TODO comment found - consider creating a task or issue",
                "re:todo", "info", "maintainability",
                {"python", "javascript", "typescript", "java", "go", "rust"},
                FALSE),
    PatternRule("fixme-comment", "FIXME Comment",
                "FIXME comment indicates a known issue that needs attention",
                "re:fixme", "medium", "bug",
                {"python", "javascript", "typescript", "java", "go", "rust"},
                FALSE),
    PatternRule("except-pass", "Empty Exception Handler",
                "Empty exception handler - at least log the error",
                "re:except-pass", "medium", "best_practice", {"python"}, FALSE),
    PatternRule("catch-empty", "Empty Catch Block",
                "Empty catch block - at least log the error",
                "re:catch-empty", "medium", "best_practice",
                {"javascript", "typescript", "java"}, FALSE) >>

\* pattern.finditer(line): the number of matches of a compiled pattern in a
\* line of the given kind
finditer_count(pattern, line) ==
    IF \/ pattern = "re:password" /\ line = "pw"
       \/ pattern = "re:todo" /\ line = "todo"
       \/ pattern = "re:print" /\ line = "log"
    THEN 1
    ELSE IF pattern = "re:print" /\ line = "log2" THEN 2 ELSE 0

\* the issues one rule yields on one line: one per match
rule_line_issues(rule, pattern, file_path, line_num, line) ==
    [m \in 1..finditer_count(pattern, line) |->
        Issue(generate_issue_id(file_path, rule.id, line_num), rule.name,
              rule.message, rule.severity, rule.category, file_path,
              line_num, ConfScale, rule.auto_fixable, rule.id)]

RECURSIVE rule_issues(_, _, _, _, _)
\* the inner loop of match_file: the lines from line_num on
rule_issues(rule, pattern, file_path, lines, line_num) ==
    IF line_num > Len(lines) THEN <<>>
    ELSE rule_line_issues(rule, pattern, file_path, line_num, lines[line_num])
         \o rule_issues(rule, pattern, file_path, lines, line_num + 1)

RECURSIVE match_rules(_, _, _, _, _, _)
\* the outer loop of match_file: the rules from position r on
match_rules(rules, compiled, file_path, lines, language, r) ==
    IF r > Len(rules) THEN <<>>
    ELSE LET rule == rules[r]
         IN  (IF language \notin rule.languages THEN <<>>
              ELSE IF rule.id \notin DOMAIN compiled THEN <<>>
              ELSE rule_issues(rule, compiled[rule.id], file_path, lines, 1))
             \o match_rules(rules, compiled, file_path, lines, language, r + 1)

RECURSIVE match_rules_any_language(_, _, _, _, _, _)
\* an outer loop that does not look at rule.languages
match_rules_any_language(rules, compiled, file_path, lines, language, r) ==
    IF r > Len(rules) THEN <<>>
    ELSE LET rule == rules[r]
         IN  (IF rule.id \notin DOMAIN compiled THEN <<>>
              ELSE rule_issues(rule, compiled[rule.id], file_path, lines, 1))
             \o match_rules_any_language(rules, compiled, file_path, lines,
                                         language, r + 1)

\* a match_file that runs every rule against every language
match_file_any_language(rules, compiled, file_path, lines, language) ==
    match_rules_any_language(rules, compiled, file_path, lines, language, 1)

\* PatternMatcher.match_file on a matcher holding `rules` and the dict
\* `compiled` (rule id -> compiled pattern)
match_file(rules, compiled, file_path, lines, language) ==
    match_rules(rules, compiled, file_path, lines, language, 1)

\* re.compile(pattern) succeeds; "re:(" stands for a pattern re.compile
\* rejects with re.error
re_compile_ok(pattern) == pattern # "re:("

\* PatternMatcher.add_rule: the rule is appended, and its compiled pattern is
\* stored under the rule's id when re.compile succeeds
add_rule(matcher, rule) ==
    [rules |-> Append(matcher.rules, rule),
     compiled |->
        IF re_compile_ok(rule.pattern)
        THEN [id \in DOMAIN matcher.compiled \cup {rule.id} |->
                 IF id = rule.id THEN rule.pattern ELSE matcher.compiled[id]]
        ELSE matcher.compiled]

RECURSIVE add_rules(_, _, _)
\* for rule in default_rules: self.add_rule(rule)
add_rules(matcher, rules, r) ==
    IF r > Len(rules) THEN matcher
    ELSE add_rules(add_rule(matcher, rules[r]), rules, r + 1)

\* PatternMatcher.__init__: empty rules and patterns, then the default rules
PatternMatcher == add_rules([rules |-> <<>>, compiled |-> <<>>], default_rules, 1)

\* rule_data.get(key, default) on an entry of a rule file (a dict: a
\* function whose domain is the keys the entry has)
entry_get(rule_data, key, default) ==
    IF key \in DOMAIN rule_data THEN rule_data[key] ELSE default

\* building the PatternRule of an entry raises: KeyError for a missing id,
\* name or pattern, ValueError for a severity or category the enums lack
entry_raises(rule_data) ==
    \/ ~({"id", "name", "pattern"} \subseteq DOMAIN rule_data)
    \/ entry_get(rule_data, "severity", "medium") \notin Severities
    \/ entry_get(rule_data, "category", "code_smell") \notin Categories

\* PatternRule(id=rule_data["id"], ..., auto_fixable=rule_data.get(...))
entry_rule(rule_data) ==
    PatternRule(rule_data["id"], rule_data["name"],
                entry_get(rule_data, "message", ""), rule_data["pattern"],
                entry_get(rule_data, "severity", "medium"),
                entry_get(rule_data, "category", "code_smell"),
                entry_get(rule_data, "languages", {}),
                entry_get(rule_data, "auto_fixable", FALSE))

RECURSIVE load_entries(_, _, _)
\* the loop of load_custom_rules from entry k on; it sits inside one try
\* block, so the first entry that raises ends the loop and the except
\* branch logs the error: the rules added before it stay
load_entries(m, entries, k) ==
    IF k > Len(entries) THEN m
    ELSE IF entry_raises(entries[k]) THEN m
    ELSE load_entries(add_rule(m, entry_rule(entries[k])), entries, k + 1)

\* PatternMatcher.load_custom_rules on a rule file whose "rules" list is
\* `entries`
load_custom_rules(m, entries) == load_entries(m, entries, 1)

-----------------------------------------------------------------------------
(* core/analyzer.py, analyzers/python_analyzer.py,                         *)
(* analyzers/javascript_analyzer.py                                        *)

\* the analyzers AnalysisEngine._register_default_analyzers registers, in
\* registration order: language (get_language) and the suffixes can_analyze
\* accepts
registry == <<
    [language |-> "python", suffixes |-> {".py", ".pyw"}],
    [language |-> "javascript",
     suffixes |-> {".js", ".jsx", ".ts", ".tsx", ".mjs", ".cjs"}],
    [language |-> "typescript", suffixes |-> {".ts", ".tsx"}] >>

\* AnalyzerRegistry.get_analyzer: the position of the first analyzer whose
\* can_analyze accepts the suffix, 0 for None
get_analyzer(suffix) ==
    IF \E a \in 1..Len(registry) : suffix \in registry[a].suffixes
    THEN CHOOSE a \in 1..Len(registry) :
            /\ suffix \in registry[a].suffixes
            /\ \A b \in 1..(a - 1) : suffix \notin registry[b].suffixes
    ELSE 0

\* AnalyzerRegistry.register: self._analyzers.append(analyzer)
register(analyzer_list, analyzer) == Append(analyzer_list, analyzer)

RECURSIVE first_accepting(_, _, _)
\* the loop of AnalyzerRegistry.get_analyzer from position a on: the
\* position of the first analyzer whose can_analyze accepts the suffix, 0
\* for None
first_accepting(analyzer_list, suffix, a) ==
    IF a > Len(analyzer_list) THEN 0
    ELSE IF suffix \in analyzer_list[a].suffixes THEN a
    ELSE first_accepting(analyzer_list, suffix, a + 1)

RECURSIVE last_accepting(_, _, _)
\* the position of the last analyzer that accepts the suffix, looking from
\* position a down
last_accepting(analyzer_list, suffix, a) ==
    IF a = 0 THEN 0
    ELSE IF suffix \in analyzer_list[a].suffixes THEN a
    ELSE last_accepting(analyzer_list, suffix, a - 1)

\* a registry in which the analyzer registered last wins
registry_get_analyzer_last(analyzer_list, suffix) ==
    last_accepting(analyzer_list, suffix, Len(analyzer_list))

\* AnalyzerRegistry.get_analyzer on a registry holding analyzer_list
registry_get_analyzer(analyzer_list, suffix) ==
    first_accepting(analyzer_list, suffix, 1)

\* AnalyzerRegistry.get_supported_languages:
\* [analyzer.get_language() for analyzer in self._analyzers]
get_supported_languages(analyzer_list) ==
    [a \in 1..Len(analyzer_list) |-> analyzer_list[a].language]

\* AnalysisEngine._register_default_analyzers on the global registry: three
\* new analyzer instances are registered
register_default_analyzers(analyzer_list) ==
    register(register(register(analyzer_list, registry[1]), registry[2]),
             registry[3])

\* the language analyze_file puts in a successful FileAnalysis
analysis_language(a, suffix) ==
    IF registry[a].language = "python" THEN "python"
    ELSE IF suffix \in {".ts", ".tsx"} THEN "typescript" ELSE "javascript"

\* the language analyze_file puts in the FileAnalysis of its own except
\* branch
failure_language(a) ==
    IF registry[a].language = "python" THEN "python" ELSE "javascript"

\* FileAnalysis(...): issues is the identity of a list object
FileAnalysis(file_path, language, issues, success, error) ==
    [file_path |-> file_path, language |-> language, issues |-> issues,
     success |-> success, error |-> error]

\* FileAnalysis(file_path=..., language=..., success=False, error=str(e));
\* issues is a fresh empty list (default_factory)
failed_analysis(file_path, language, issues, error) ==
    FileAnalysis(file_path, language, issues, FALSE, error)

\* the lines of `lines` from k on that are of kind `kind`, as line numbers
RECURSIVE lines_of_kind(_, _, _)
lines_of_kind(lines, kind, k) ==
    IF k > Len(lines) THEN <<>>
    ELSE (IF lines[k] = kind THEN <<k>> ELSE <<>>)
         \o lines_of_kind(lines, kind, k + 1)

\* BestPracticeVisitor.visit_Try: the issue of a bare except at line l
bare_except_issue(file_path, l) ==
    Issue(generate_issue_id(file_path, "bare_except", l),
          "Bare Except Clause",
          "Using bare 'except:' is discouraged. Catch specific exceptions instead.",
          "medium", "best_practice", file_path, l, ConfScale, TRUE, "none")

\* BugDetectorVisitor.visit_Compare: the issue of `is` with a literal
is_literal_issue(file_path, l) ==
    Issue(generate_issue_id(file_path, "is_literal", l),
          "Identity Check with Literal",
          "Use '==' for value comparison, not 'is'",
          "medium", "bug", file_path, l, ConfScale, TRUE, "none")

\* PythonAnalyzer.analyze_file, except SyntaxError: the issue at e.lineno
\* with description str(e.msg)
syntax_error_issue(file_path, l, msg) ==
    Issue(generate_issue_id(file_path, "syntax", l), "Python Syntax Error",
          msg, "critical", "bug", file_path, l, ConfScale, FALSE, "none")

RECURSIVE console_log_lines(_, _)
\* the lines from k on for which `"console.log" in line` holds
console_log_lines(lines, k) ==
    IF k > Len(lines) THEN <<>>
    ELSE (IF lines[k] \in {"log", "log2"} THEN <<k>> ELSE <<>>)
         \o console_log_lines(lines, k + 1)

\* JavaScriptAnalyzer._check_console_log
console_log_issue(file_path, l) ==
    Issue(generate_issue_id(file_path, "console_log", l),
          "Console.log Statement",
          "console.log statements should be removed in production code",
          "low", "best_practice", file_path, l, ConfScale, TRUE, "none")

\* the issues the checks of analyze_file append to self.issues, in the order
\* of the appends: _check_code_smells, _check_best_practices, then
\* _check_potential_bugs for Python; _check_common_issues for JavaScript
check_findings(a, file_path, lines) ==
    IF registry[a].language = "python"
    THEN LET bare == lines_of_kind(lines, "bare", 1)
             is5 == lines_of_kind(lines, "is5", 1)
         IN  [k \in 1..Len(bare) |-> bare_except_issue(file_path, bare[k])]
             \o [k \in 1..Len(is5) |-> is_literal_issue(file_path, is5[k])]
    ELSE LET log == console_log_lines(lines, 1)
         IN  [k \in 1..Len(log) |-> console_log_issue(file_path, log[k])]

\* the result of a parse: a SyntaxError with e.lineno and e.msg, another
\* Exception with its str(), or a tree
ParseResult(outcome, lineno, msg) ==
    [outcome |-> outcome, lineno |-> lineno, msg |-> msg]

RECURSIVE parse_lines(_, _, _)
\* the parser from line k on; pending tells what the statement before line k
\* leaves open: "try" a try clause still without a handler, "handlers" a
\* try statement that may take another handler, "none" nothing.  A comment
\* line is no token.  The MemoryError of a "mem" line is raised when the
\* parser reaches the line, the RecursionError of a "deep" line only when
\* the tree of a file without syntax error is built
parse_lines(lines, k, pending) ==
    IF k > Len(lines)
    THEN IF pending = "try"
         THEN ParseResult("syntax", IF Len(lines) = 0 THEN 1 ELSE Len(lines),
                          "expected 'except' or 'finally' block")
         ELSE IF lines_of_kind(lines, "deep", 1) # <<>>
         THEN ParseResult("fault", 0,
                  "maximum recursion depth exceeded during ast construction")
         ELSE ParseResult("ok", 0, "")
    ELSE IF lines[k] = "todo" THEN parse_lines(lines, k + 1, pending)
    ELSE IF lines[k] = "bare"
    THEN IF pending \in {"try", "handlers"}
         THEN parse_lines(lines, k + 1, "handlers")
         ELSE ParseResult("syntax", k, "invalid syntax")
    ELSE IF pending = "try"
    THEN ParseResult("syntax", k, "expected 'except' or 'finally' block")
    ELSE IF lines[k] = "mem" THEN ParseResult("fault", 0, "")
    ELSE IF lines[k] = "bad" THEN ParseResult("syntax", k, "invalid syntax")
    ELSE parse_lines(lines, k + 1,
                     IF lines[k] = "try" THEN "try" ELSE "none")

\* ast.parse(content, filename=str(file_path))
ast_parse(lines) == parse_lines(lines, 1, "none")

\* what read_file and the parse of analyze_file come to for a file:
\*   "unreadable"  read_file raises FileAccessError
\*   "syntax"      ast.parse raises SyntaxError (Python only)
\*   "fault"       ast.parse raises another Exception (Python only): a
\*                 RecursionError for a "deep" line (a chain of thousands of
\*                 binary operators), a MemoryError for a "mem" line (a
\*                 chain of thousands of unary operators)
\*   "ok"          the checks run to their end
parse_outcome(a, file) ==
    IF ~file.readable THEN "unreadable"
    ELSE IF registry[a].language # "python" THEN "ok"
    ELSE ast_parse(file.content).outcome

\* error=str(e) of the exception analyze_file catches: the message of the
\* FileAccessError of read_file, of the RecursionError, or of the MemoryError,
\* which has none
error_message(file) ==
    IF ~file.readable
    THEN file.path \o ": Cannot read file: [Errno 13] Permission denied: '"
         \o file.path \o "'"
    ELSE ast_parse(file.content).msg

-----------------------------------------------------------------------------
(* core/engine.py *)

MaxFiles == 2       \* most files one run discovers

\* config.analysis.max_workers
MaxWorkers == 4

\* the files discovery can return, in the sorted order discover_files gives
Candidates == <<
    [path |-> "a.py", suffix |-> ".py"],
    [path |-> "b.py", suffix |-> ".py"],
    [path |-> "c.go", suffix |-> ".go"],
    [path |-> "d.js", suffix |-> ".js"] >>

\* the contents a file of a given suffix is drawn from
ContentsOf(suffix) ==
    IF suffix = ".py"
    THEN {<<"code">>, <<"bare">>, <<"try", "bare">>,
          <<"pw", "try", "bare", "is5">>, <<"bad", "todo">>,
          <<"deep", "pw">>, <<"mem">>}
    ELSE IF suffix = ".go" THEN {<<"code">>, <<"todo">>}
    ELSE {<<"code">>, <<"log">>, <<"log2">>}

\* a discovered file: readable with one of the contents, or unreadable
FileStates(c) ==
    {[path |-> c.path, suffix |-> c.suffix, content |-> x, readable |-> TRUE] :
        x \in ContentsOf(c.suffix)}
    \cup {[path |-> c.path, suffix |-> c.suffix, content |-> <<>>,
           readable |-> FALSE]}

NoAnalysis == FileAnalysis("", "", 0, TRUE, "none")

\* self.pattern_matcher of the engine: never changed after __init__
pattern_matcher == PatternMatcher

RECURSIVE total_issues_added(_, _, _)
\* AnalysisResult.add_file_analysis for the records from position k on:
\* total_issues grows by len(file_analysis.issues) of each record added
total_issues_added(file_analyses, objects, k) ==
    IF k > Len(file_analyses) THEN 0
    ELSE Len(objects[file_analyses[k].issues])
         + total_issues_added(file_analyses, objects, k + 1)

RECURSIVE issues_held(_, _)
\* get_all_issues() once the records hold their issue lists themselves
issues_held(file_analyses, k) ==
    IF k > Len(file_analyses) THEN <<>>
    ELSE file_analyses[k].issues \o issues_held(file_analyses, k + 1)

\* AnalysisResult.get_severity_counts
get_severity_counts(issues) ==
    [s \in Severities |->
        Cardinality({k \in 1..Len(issues) : issues[k].severity = s})]

\* AnalysisResult.get_category_counts
get_category_counts(issues) ==
    [c \in Categories |->
        Cardinality({k \in 1..Len(issues) : issues[k].category = c})]

\* the counts of the result after generate_summary: total_files and
\* total_issues are the counters add_file_analysis kept, the severity and
\* category counts are taken from the issues the records hold now
generate_summary(total_files, total_issues, file_analyses) ==
    [total_files |-> total_files,
     total_issues |-> total_issues,
     summary_total_files |-> total_files,
     summary_total_issues |-> total_issues,
     severity_counts |-> get_severity_counts(issues_held(file_analyses, 1)),
     category_counts |-> get_category_counts(issues_held(file_analyses, 1))]

\* the counts before analyze_path returned
NoTotals == generate_summary(0, 0, <<>>)

EngInit ==
    /\ \E n \in 0..MaxFiles :
       \E idx \in [1..n -> 1..Len(Candidates)] :
          /\ \A k \in 1..(n - 1) : idx[k] < idx[k + 1]
          /\ files \in {f \in [1..n -> UNION {FileStates(Candidates[c]) :
                                                c \in 1..Len(Candidates)}] :
                           \A k \in 1..n : f[k] \in FileStates(Candidates[idx[k]])}
    /\ parallel \in {p \in BOOLEAN : p => Len(files) > 1}
    /\ task = [i \in 1..Len(files) |->
                  [pc |-> "pending", k |-> 0, target |-> 0, fa |-> NoAnalysis,
                   matched |-> FALSE]]
    /\ heap = [o \in 1..(2 * Len(files)) |-> <<>>]
    /\ an_issues = [a \in 1..Len(registry) |-> 0]
    /\ results = <<>>
    /\ phase = "analyzing"
    /\ final = <<>>
    /\ dispatched = [i \in 1..Len(files) |-> 0]
    /\ totals = NoTotals

\* the analyze_file calls that hold a worker
Running == {i \in 1..Len(files) :
               task[i].pc \notin {"pending", "finished", "collected"}}

\* min(self.config.analysis.max_workers, len(files))
max_workers == IF MaxWorkers < Len(files) THEN MaxWorkers ELSE Len(files)

\* the list object a failed FileAnalysis of file i gets (default_factory)
FreshList(i) == Len(files) + i

\* file i is handed to analyze_file: the call holds the calling thread or a
\* worker of the pool from now on
submit(i) ==
    /\ task' = [task EXCEPT ![i].pc = "enter", ![i].k = 0,
                            ![i].fa = NoAnalysis]
    /\ dispatched' = [dispatched EXCEPT ![i] = @ + 1]
    /\ UNCHANGED <<files, parallel, heap, an_issues, results, phase, final,
                   totals, aggVars, pmVars, regVars, fltVars, cliVars>>

\* an engine that submits a file again when its analysis failed
Start_retry(i) ==
    /\ phase = "analyzing"
    /\ \/ task[i].pc = "pending"
       \/ /\ task[i].pc = "finished"
          /\ ~task[i].fa.success
          /\ dispatched[i] < 2
    /\ IF parallel THEN Cardinality(Running) < max_workers
                   ELSE Len(results) = i - 1
    /\ submit(i)

\* AnalysisEngine.analyze_file is called for file i: in sequential mode by
\* the loop of _analyze_sequential, once the files before i are done; in
\* parallel mode by a worker of the pool, each file being submitted once
Start(i) ==
    /\ phase = "analyzing"
    /\ task[i].pc = "pending"
    /\ IF parallel THEN Cardinality(Running) < max_workers
                   ELSE Len(results) = i - 1
    /\ submit(i)

\* the first statements of AnalysisEngine.analyze_file for file i:
\* get_analyzer, and either the FileAnalysis of "no analyzer" or the first
\* statement of analyzer.analyze_file, self.issues = []
enter_analyze_file(i) ==
    /\ task[i].pc = "enter"
    /\ LET a == get_analyzer(files[i].suffix)
       IN  IF a = 0
           THEN /\ task' = [task EXCEPT ![i].pc = "finished",
                      ![i].fa = failed_analysis(files[i].path, "unknown",
                                   FreshList(i),
                                   "No analyzer available for this file type")]
                /\ UNCHANGED an_issues
           ELSE /\ task' = [task EXCEPT ![i].pc = "parse"]
                /\ an_issues' = [an_issues EXCEPT ![a] = i]
    /\ UNCHANGED <<files, parallel, heap, results, phase, final, dispatched,
                   totals, aggVars, pmVars, regVars, fltVars, cliVars>>

\* analyzer.analyze_file: read_file and the parse; an Exception other than
\* SyntaxError ends in the except branch, which returns a failed FileAnalysis
Parse(i) ==
    /\ task[i].pc = "parse"
    /\ LET a == get_analyzer(files[i].suffix)
           outcome == parse_outcome(a, files[i])
       IN  task' =
             IF outcome = "ok" THEN [task EXCEPT ![i].pc = "check"]
             ELSE IF outcome = "syntax" THEN [task EXCEPT ![i].pc = "syntax"]
             ELSE [task EXCEPT ![i].pc = "pattern",
                      ![i].fa = failed_analysis(files[i].path,
                                   failure_language(a), FreshList(i),
                                   error_message(files[i]))]
    /\ UNCHANGED <<files, parallel, heap, an_issues, results, phase, final,
                   dispatched, totals, aggVars, pmVars,
                   regVars, fltVars, cliVars>>

\* self.issues.append(Issue(..., code_snippet=self.get_code_snippet(...))) of
\* a check, first half: the list self.issues names at this moment is loaded;
\* the arguments (get_code_snippet reads the file) are evaluated after it
LoadIssues(i) ==
    /\ task[i].pc = "check"
    /\ LET a == get_analyzer(files[i].suffix)
           findings == check_findings(a, files[i].path, files[i].content)
       IN  /\ task[i].k < Len(findings)
           /\ task' = [task EXCEPT ![i].pc = "append",
                                   ![i].target = an_issues[a]]
    /\ UNCHANGED <<files, parallel, heap, an_issues, results, phase, final,
                   dispatched, totals, aggVars, pmVars,
                   regVars, fltVars, cliVars>>

\* ... second half: the list that was loaded gets the next finding
Check(i) ==
    /\ task[i].pc = "append"
    /\ LET a == get_analyzer(files[i].suffix)
           findings == check_findings(a, files[i].path, files[i].content)
       IN  /\ heap' = [heap EXCEPT ![task[i].target] =
                          Append(@, findings[task[i].k + 1])]
           /\ task' = [task EXCEPT ![i].pc = "check", ![i].k = @ + 1,
                                   ![i].target = 0]
    /\ UNCHANGED <<files, parallel, an_issues, results, phase, final,
                   dispatched, totals, aggVars, pmVars,
                   regVars, fltVars, cliVars>>

\* except SyntaxError: self.issues.append(issue)
SyntaxAppend(i) ==
    /\ task[i].pc = "syntax"
    /\ LET a == get_analyzer(files[i].suffix)
           e == ast_parse(files[i].content)
       IN  heap' = [heap EXCEPT ![an_issues[a]] =
                       Append(@, syntax_error_issue(files[i].path, e.lineno,
                                                    e.msg))]
    /\ task' = [task EXCEPT ![i].pc = "syntax_ret"]
    /\ UNCHANGED <<files, parallel, an_issues, results, phase, final,
                   dispatched, totals, aggVars, pmVars,
                   regVars, fltVars, cliVars>>

\* return FileAnalysis(..., issues=self.issues, success=True): the record
\* holds the list self.issues names at this moment
Return(i) ==
    /\ \/ task[i].pc = "syntax_ret"
       \/ /\ task[i].pc = "check"
          /\ task[i].k = Len(check_findings(get_analyzer(files[i].suffix),
                                            files[i].path, files[i].content))
    /\ LET a == get_analyzer(files[i].suffix)
       IN  task' = [task EXCEPT ![i].pc = "pattern",
                       ![i].fa = FileAnalysis(files[i].path,
                                    analysis_language(a, files[i].suffix),
                                    an_issues[a], TRUE, "none")]
    /\ UNCHANGED <<files, parallel, heap, an_issues, results, phase, final,
                   dispatched, totals, aggVars, pmVars,
                   regVars, fltVars, cliVars>>

\* analyze_file of the engine after analyze_with_timing returned: read_file,
\* match_file and file_analysis.issues.extend(pattern_issues); a failing
\* read_file is logged and leaves the FileAnalysis as it is
Pattern(i) ==
    /\ task[i].pc = "pattern"
    /\ IF files[i].readable
       THEN /\ heap' = [heap EXCEPT ![task[i].fa.issues] =
                          @ \o match_file(pattern_matcher.rules,
                                          pattern_matcher.compiled,
                                          files[i].path, files[i].content,
                                          task[i].fa.language)]
            /\ task' = [task EXCEPT ![i].pc = "finished",
                                    ![i].matched = TRUE]
       ELSE /\ task' = [task EXCEPT ![i].pc = "finished"]
            /\ UNCHANGED heap
    /\ UNCHANGED <<files, parallel, an_issues, results, phase, final,
                   dispatched, totals, aggVars, pmVars,
                   regVars, fltVars, cliVars>>

\* results.append(result): in sequential mode right after analyze_file
\* returned, in parallel mode when as_completed yields the future of file i
\* (analyze_file raises no Exception, so future.result() returns)
Collect(i) ==
    /\ task[i].pc = "finished"
    /\ results' = Append(results, task[i].fa)
    /\ task' = [task EXCEPT ![i].pc = "collected"]
    /\ UNCHANGED <<files, parallel, heap, an_issues, phase, final,
                   dispatched, totals, aggVars, pmVars,
                   regVars, fltVars, cliVars>>

RECURSIVE get_all_issues(_, _, _)
\* AnalysisResult.get_all_issues: the issue lists of file_analyses from
\* position k on, concatenated
get_all_issues(file_analyses, objects, k) ==
    IF k > Len(file_analyses) THEN <<>>
    ELSE objects[file_analyses[k].issues]
         \o get_all_issues(file_analyses, objects, k + 1)

\* a re-partition that hands every record the whole ranked list
issues_by_file_all(ranked_issues, file_path) == ranked_issues

\* issues_by_file.get(file_path, []) of
\* _update_file_analyses_with_ranked_issues
issues_by_file(ranked_issues, file_path) ==
    LET Test(issue) == issue.file_path = file_path
    IN  SelectSeq(ranked_issues, Test)

\* _update_file_analyses_with_ranked_issues: every FileAnalysis gets the list
\* of the ranked issues of its file_path (issues now holds the list itself)
update_file_analyses_with_ranked_issues(file_analyses, ranked_issues) ==
    [k \in 1..Len(file_analyses) |->
        [file_analyses[k] EXCEPT
            !.issues = issues_by_file(ranked_issues, file_analyses[k].file_path)]]

\* analyze_path after the analyses: add_file_analysis for every result,
\* deduplicate, rank, re-partition
Aggregate ==
    /\ phase = "analyzing"
    /\ Len(results) = Len(files)
    /\ LET all_issues == get_all_issues(results, heap, 1)
           unique_issues == deduplicate_issues(all_issues)
           ranked_issues == rank_issues(unique_issues)
           updated == update_file_analyses_with_ranked_issues(results,
                                                              ranked_issues)
       IN  /\ final' = updated
           /\ totals' = generate_summary(Len(results),
                             total_issues_added(results, heap, 1), updated)
    /\ phase' = "done"
    /\ UNCHANGED <<files, parallel, task, heap, an_issues, results,
                   dispatched, aggVars, pmVars, regVars, fltVars, cliVars>>

EngNext ==
    \/ \E i \in 1..Len(files) : Start(i)
    \/ \E i \in 1..Len(files) : enter_analyze_file(i)
    \/ \E i \in 1..Len(files) : Parse(i)
    \/ \E i \in 1..Len(files) : LoadIssues(i)
    \/ \E i \in 1..Len(files) : Check(i)
    \/ \E i \in 1..Len(files) : SyntaxAppend(i)
    \/ \E i \in 1..Len(files) : Return(i)
    \/ \E i \in 1..Len(files) : Pattern(i)
    \/ \E i \in 1..Len(files) : Collect(i)
    \/ Aggregate

-----------------------------------------------------------------------------
(* Pattern pm_matcher harness: one PatternMatcher, rules added to it by        *)
(* add_rule and load_custom_rules, and match_file calls on it              *)

MaxCustomRules == 2   \* most rules added to the default catalog

\* the rules add_rule is called with: fresh ids and ids already in use,
\* patterns that compile and patterns that do not
CustomRules == {
    PatternRule("custom-todo", "Custom TODO", "custom todo", "re:todo",
                "low", "style", {"go"}, FALSE),
    PatternRule("custom-todo", "Custom Password", "custom password",
                "re:password", "high", "security", {"python"}, FALSE),
    PatternRule("custom-broken", "Broken Custom", "broken", "re:(", "high",
                "bug", {"python", "go"}, FALSE),
    PatternRule("todo-comment", "Broken TODO", "broken", "re:(", "high",
                "bug", {"python"}, FALSE) }

\* the entries a rule file holds: well-formed ones, one without id, one with
\* a severity the enum lacks
RuleEntries == {
    [id |-> "file-todo", name |-> "File TODO", pattern |-> "re:todo",
     languages |-> {"go", "python"}],
    [id |-> "file-pw", name |-> "File Password", pattern |-> "re:password",
     severity |-> "high", category |-> "security", languages |-> {"python"},
     message |-> "password in file", auto_fixable |-> TRUE],
    [name |-> "No Id", pattern |-> "re:todo", languages |-> {"python"}],
    [id |-> "file-urgent", name |-> "Urgent", pattern |-> "re:password",
     severity |-> "urgent", languages |-> {"python"}] }

\* the "rules" lists of the rule files
EntryLists ==
    UNION {[1..n -> RuleEntries] : n \in 0..MaxCustomRules}

\* the contents and languages match_file is called with
MatchContents == {<<"code">>, <<"pw", "todo">>, <<"todo", "log", "todo">>}
MatchLanguages == {"python", "go", "rust", "unknown"}

NoRule == PatternRule("", "", "", "", "info", "bug", {}, FALSE)

PmCall(op, rule, entries, before, lines, language, issues) ==
    [op |-> op, rule |-> rule, entries |-> entries, before |-> before,
     lines |-> lines, language |-> language, issues |-> issues]

\* PatternMatcher(): the default catalog
PmInit ==
    /\ pm_matcher = PatternMatcher
    /\ pm_call = PmCall("init", NoRule, <<>>, PatternMatcher, <<>>, "", <<>>)

\* matcher.add_rule(rule): returns None, raises nothing
AddRule ==
    \E rule \in CustomRules :
        /\ Len(pm_matcher.rules) < Len(default_rules) + MaxCustomRules
        /\ pm_matcher' = add_rule(pm_matcher, rule)
        /\ pm_call' = PmCall("add_rule", rule, <<>>, pm_matcher, <<>>, "", <<>>)
        /\ UNCHANGED <<aggVars, engVars, regVars, fltVars, cliVars>>

\* matcher.load_custom_rules(rules_file)
LoadCustomRules ==
    \E entries \in EntryLists :
        /\ Len(pm_matcher.rules) + Len(entries)
              <= Len(default_rules) + MaxCustomRules
        /\ pm_matcher' = load_custom_rules(pm_matcher, entries)
        /\ pm_call' = PmCall("load", NoRule, entries, pm_matcher, <<>>, "", <<>>)
        /\ UNCHANGED <<aggVars, engVars, regVars, fltVars, cliVars>>

\* matcher.match_file(Path("m.src"), content, language)
MatchFile ==
    \E lines \in MatchContents, language \in MatchLanguages :
        /\ pm_call' = PmCall("match", NoRule, <<>>, pm_matcher, lines, language,
                             match_file(pm_matcher.rules, pm_matcher.compiled,
                                        "m.src", lines, language))
        /\ UNCHANGED <<pm_matcher, aggVars, engVars, regVars, fltVars, cliVars>>

PmNext ==
    \/ AddRule
    \/ LoadCustomRules
    \/ MatchFile

-----------------------------------------------------------------------------
(* Registry harness: the global _registry, the registrations made on it    *)
(* and the lookups                                                         *)

MaxAnalyzers == 6     \* most analyzers registered (two engines' worth)

\* the suffixes get_analyzer is asked for
LookupSuffixes == {".py", ".js", ".ts", ".tsx", ".go"}

RegCall(op, suffix, found, languages) ==
    [op |-> op, suffix |-> suffix, found |-> found, languages |-> languages]

\* _registry = AnalyzerRegistry()
RegInit ==
    /\ analyzers = <<>>
    /\ reg_call = RegCall("init", "", 0, <<>>)

\* registry.register(analyzer) with an analyzer of one of the three classes
Register ==
    \E c \in 1..Len(registry) :
        /\ Len(analyzers) < MaxAnalyzers
        /\ analyzers' = register(analyzers, registry[c])
        /\ reg_call' = RegCall("register", "", 0, <<>>)
        /\ UNCHANGED <<aggVars, engVars, pmVars, fltVars, cliVars>>

\* AnalysisEngine(config): __init__ registers the default analyzers on the
\* global registry
ConstructEngine ==
    /\ Len(analyzers) + Len(registry) <= MaxAnalyzers
    /\ analyzers' = register_default_analyzers(analyzers)
    /\ reg_call' = RegCall("engine", "", 0, <<>>)
    /\ UNCHANGED <<aggVars, engVars, pmVars, fltVars, cliVars>>

\* registry.get_analyzer(path) for a path with the given suffix
GetAnalyzer ==
    \E suffix \in LookupSuffixes :
        /\ reg_call' = RegCall("get_analyzer", suffix,
                               registry_get_analyzer(analyzers, suffix), <<>>)
        /\ UNCHANGED <<analyzers, aggVars, engVars, pmVars, fltVars, cliVars>>

\* registry.get_supported_languages()
GetSupportedLanguages ==
    /\ reg_call' = RegCall("languages", "", 0,
                           get_supported_languages(analyzers))
    /\ UNCHANGED <<analyzers, aggVars, engVars, pmVars, fltVars, cliVars>>

RegNext ==
    \/ Register
    \/ ConstructEngine
    \/ GetAnalyzer
    \/ GetSupportedLanguages

-----------------------------------------------------------------------------
(* cli/main.py: the severity filter of the analyze command *)

\* the position of a severity's value among the values in string order
\* ("critical" < "high" < "info" < "low" < "medium")
value_order(severity) ==
    CASE severity = "critical" -> 1
      [] severity = "high" -> 2
      [] severity = "info" -> 3
      [] severity = "low" -> 4
      [] severity = "medium" -> 5

\* file_analysis.issues = [issue for issue in file_analysis.issues
\*                         if issue.severity.value >= severity_enum.value]:
\* the values are strings, compared as strings
cli_severity_filter(issues, severity) ==
    LET Test(issue) == value_order(issue.severity) >= value_order(severity)
    IN  SelectSeq(issues, Test)

-----------------------------------------------------------------------------
(* Filter harness: the inputs drawn for filter_issues, for the severity    *)
(* filter of the CLI and for find_similar_issues                           *)

MaxFilterIssues == 2    \* longest list handed to the filters
MaxSimilarIssues == 4   \* longest list handed to find_similar_issues

\* the issues the filters are given: every severity, two categories, fixable
\* or not
FilterUniverse ==
    {Issue("f", "X", "x", s, c, "a.py", 3, ConfScale, f, "r") :
        s \in Severities, c \in {"bug", "style"}, f \in BOOLEAN}

\* the second description is similar to the first and to the third, the
\* first and the third are not similar to each other
SimilarDescriptions ==
    {"Function foo is 80 lines long", "Function is 80 lines long",
     "Function is 80 lines long (max 50)"}

\* the descriptions the issues of an id are drawn with
SimilarDescriptionsOf(id) ==
    IF id \in {"p", "q"} THEN SimilarDescriptions
    ELSE IF id = "r"
    THEN {"Function is 80 lines long", "Function is 80 lines long (max 50)"}
    ELSE {"Function is 80 lines long (max 50)"}

\* the issues find_similar_issues is given: at one place of one file, with
\* equal and distinct ids (four ids, so that a call can return two groups),
\* titles and descriptions that are equal, similar or not similar, and
\* issues of another severity, category or title
SimilarUniverse ==
    UNION {{Issue(id, "Function too long", d, "high", "bug", "a.py", 3,
                  ConfScale, FALSE, "r") : d \in SimilarDescriptionsOf(id)} :
              id \in {"p", "q", "r", "s"}}
    \cup {Issue("q", "Function is too long", "Function is 80 lines long",
                "high", "bug", "a.py", 3, ConfScale, FALSE, "r"),
          Issue("p", "Function too long", "Function is 80 lines long",
                "low", "bug", "a.py", 3, ConfScale, FALSE, "r"),
          Issue("q", "Function too long", "Function is 80 lines long",
                "high", "style", "a.py", 3, ConfScale, FALSE, "r"),
          Issue("r", "Unused import", "Function is 80 lines long",
                "high", "bug", "a.py", 3, ConfScale, FALSE, "r")}

\* the values of min_severity and of categories
MinSeverities == Severities \cup {"none"}
CategoryArgs ==
    {[given |-> FALSE, values |-> {}], [given |-> TRUE, values |-> {}],
     [given |-> TRUE, values |-> {"bug"}],
     [given |-> TRUE, values |-> {"bug", "style"}]}

FltCall(op, min_severity, categories, auto_fixable_only, outcome, groups) ==
    [op |-> op, min_severity |-> min_severity, categories |-> categories,
     auto_fixable_only |-> auto_fixable_only, outcome |-> outcome,
     groups |-> groups]

NoCategories == [given |-> FALSE, values |-> {}]

FltInit ==
    /\ \/ \E n \in 0..MaxFilterIssues : flt_in \in [1..n -> FilterUniverse]
       \/ \E n \in 0..MaxSimilarIssues : flt_in \in [1..n -> SimilarUniverse]
    /\ flt_call = FltCall("init", "none", NoCategories, FALSE,
                          Returned_value(<<>>), <<>>)

\* aggregator.filter_issues(flt_in, min_severity, categories,
\* auto_fixable_only): one call on the drawn list
FilterIssues ==
    \E min_severity \in MinSeverities, categories \in CategoryArgs,
       auto_fixable_only \in BOOLEAN :
        /\ flt_call.op = "init"
        /\ \A k \in 1..Len(flt_in) : flt_in[k] \in FilterUniverse
        /\ flt_call' = FltCall("filter", min_severity, categories,
                               auto_fixable_only,
                               filter_issues(flt_in, min_severity, categories,
                                             auto_fixable_only), <<>>)
        /\ UNCHANGED <<flt_in, aggVars, engVars, pmVars, regVars, cliVars>>

\* analyze --severity S on a FileAnalysis holding flt_in
CliSeverityFilter ==
    \E severity \in Severities :
        /\ flt_call.op = "init"
        /\ \A k \in 1..Len(flt_in) : flt_in[k] \in FilterUniverse
        /\ flt_call' = FltCall("cli", severity, NoCategories, FALSE,
                               Returned_value(
                                   cli_severity_filter(flt_in, severity)),
                               <<>>)
        /\ UNCHANGED <<flt_in, aggVars, engVars, pmVars, regVars, cliVars>>

\* aggregator.find_similar_issues(flt_in)
FindSimilarIssues ==
    /\ flt_call.op = "init"
    /\ \A k \in 1..Len(flt_in) : flt_in[k] \in SimilarUniverse
    /\ flt_call' = FltCall("similar", "none", NoCategories, FALSE,
                           Returned_value(<<>>), find_similar_issues(flt_in))
    /\ UNCHANGED <<flt_in, aggVars, engVars, pmVars, regVars, cliVars>>

FltNext ==
    \/ FilterIssues
    \/ CliSeverityFilter
    \/ FindSimilarIssues

-----------------------------------------------------------------------------
(* core/config.py, ai/provider.py, ai/enrichment.py *)

\* Config with the fields validate and get_ai_provider read; an api key that
\* is not set is "none"
Config(enabled, provider, openai_api_key, anthropic_api_key, min_severity, format) ==
    [ai |-> [enabled |-> enabled, provider |-> provider,
             openai_api_key |-> openai_api_key,
             anthropic_api_key |-> anthropic_api_key],
     analysis |-> [min_severity |-> min_severity],
     output |-> [format |-> format]]

\* valid_severities of Config.validate
valid_severities == <<"info", "low", "medium", "high", "critical">>

\* valid_formats of Config.validate
valid_formats == <<"rich", "json", "sarif", "junit">>

\* the elements of a list
Elements(list) == {list[k] : k \in 1..Len(list)}

\* Config.validate: the list of errors; the AI configuration is not looked
\* at (the check of the api keys is commented out)
validate(config) ==
    (IF config.analysis.min_severity \notin Elements(valid_severities)
     THEN <<"Invalid min_severity: " \o config.analysis.min_severity>>
     ELSE <<>>)
    \o (IF config.output.format \notin Elements(valid_formats)
        THEN <<"Invalid output format: " \o config.output.format>>
        ELSE <<>>)

\* get_ai_provider(config.ai), called by AIEnrichment.__init__: None when AI
\* is not enabled, an AIProviderError when the provider's key is not set or
\* the provider is unknown, else the provider object
get_ai_provider(ai) ==
    IF ~ai.enabled THEN Returned_value("None")
    ELSE IF ai.provider = "openai"
    THEN (IF ai.openai_api_key = "none"
          THEN Raised_exception("AIProviderError")
          ELSE Returned_value("OpenAIProvider"))
    ELSE IF ai.provider = "anthropic"
    THEN (IF ai.anthropic_api_key = "none"
          THEN Raised_exception("AIProviderError")
          ELSE Returned_value("ClaudeProvider"))
    ELSE Raised_exception("AIProviderError")

\* the position of a category's value among the values in string order
category_value_order(category) ==
    CASE category = "best_practice" -> 1
      [] category = "bug" -> 2
      [] category = "code_smell" -> 3
      [] category = "complexity" -> 4
      [] category = "duplication" -> 5
      [] category = "maintainability" -> 6
      [] category = "performance" -> 7
      [] category = "security" -> 8
      [] category = "style" -> 9
      [] category = "type_error" -> 10

\* the key (x.severity.value, x.category.value) of a is greater than that of
\* b: tuples of strings, compared as strings
enrich_key_greater(a, b) ==
    \/ value_order(a.severity) > value_order(b.severity)
    \/ /\ a.severity = b.severity
       /\ category_value_order(a.category) > category_value_order(b.category)

\* sorted(issues, key=lambda x: (x.severity.value, x.category.value),
\* reverse=True): greatest key first, equal keys in input order
sorted_issues(issues) ==
    [k \in 1..Len(issues) |->
        issues[CHOOSE i \in 1..Len(issues) :
            k = 1 + Cardinality({j \in 1..Len(issues) :
                    \/ enrich_key_greater(issues[j], issues[i])
                    \/ /\ ~enrich_key_greater(issues[i], issues[j])
                       /\ j < i})]]

\* sorted_issues[:max_issues] for max_issues >= 0
issues_to_enrich(issues, max_issues) ==
    SubSeq(sorted_issues(issues), 1,
           IF max_issues < Len(issues) THEN max_issues ELSE Len(issues))

\* AIEnrichment.enrich_issues: the list it returns and the issues it hands
\* to the provider (explain_issue is called for every issue of the slice
\* that has no ai_explanation; the issues of an analysis have none); an
\* exception of the provider is logged and the issue kept
enrich_issues(provider, issues, max_issues) ==
    IF provider = "None"
    THEN [returned |-> issues, sent |-> <<>>]
    ELSE [returned |-> sorted_issues(issues),
          sent |-> issues_to_enrich(issues, max_issues)]

-----------------------------------------------------------------------------
(* Configuration and enrichment harness: a drawn Config and a drawn issue    *)
(* list; validate is called on the Config, the methods of                   *)
(* AIEnrichment(config) on the list, or the AI block of the analyze command *)
(* runs with them                                                           *)

MaxEnrichIssues == 2    \* longest list handed to enrich_issues
MaxSlice == 2           \* largest max_issues handed to enrich_issues

\* the configurations drawn
Configs ==
    {Config(enabled, provider, openai_api_key, anthropic_api_key, min_severity, format) :
        enabled \in BOOLEAN, provider \in {"openai", "anthropic"},
        openai_api_key \in {"none", "sk-1"},
        anthropic_api_key \in {"none", "sk-2"},
        min_severity \in {"info", "urgent"}, format \in {"rich", "html"}}

\* the issues enrich_issues is given: every severity, two categories
EnrichUniverse ==
    {Issue("e", "X", "x", s, c, "a.py", 3, ConfScale, FALSE, "r") :
        s \in Severities, c \in {"bug", "style"}}

CliCall(op, errors, max_issues, provider, enriched) ==
    [op |-> op, errors |-> errors, max_issues |-> max_issues,
     provider |-> provider, enriched |-> enriched]

NoEnrichment == [returned |-> <<>>, sent |-> <<>>]

CliInit ==
    /\ cli_cfg \in Configs
    /\ cli_in \in UNION {[1..n -> EnrichUniverse] : n \in 0..MaxEnrichIssues}
    /\ cli_call = CliCall("init", <<>>, 0, Returned_value("None"),
                          NoEnrichment)

\* errors = config.validate()
Validate ==
    /\ cli_call.op = "init"
    /\ cli_call' = CliCall("validate", validate(cli_cfg), 0,
                           Returned_value("None"), NoEnrichment)
    /\ UNCHANGED <<cli_cfg, cli_in, aggVars, engVars, pmVars, regVars,
                   fltVars>>

\* AIEnrichment(config).enrich_issues(cli_in, max_issues): when the
\* constructor raises there is no enrichment object and nothing is called
EnrichIssues ==
    \E max_issues \in 0..MaxSlice :
        /\ cli_call.op = "init"
        /\ LET provider == get_ai_provider(cli_cfg.ai)
           IN  cli_call' = CliCall("enrich", <<>>, max_issues, provider,
                               IF provider.raised # "none" THEN NoEnrichment
                               ELSE enrich_issues(provider.value, cli_in,
                                                  max_issues))
        /\ UNCHANGED <<cli_cfg, cli_in, aggVars, engVars, pmVars, regVars,
                       fltVars>>

\* AIEnrichment(config).enrich_file_analysis(file_analysis), cli_in being
\* file_analysis.issues: without a provider or without issues the record is
\* returned as it is, else its issues are replaced by the list
\* enrich_issues returns for the default max_issues=10
EnrichFileAnalysis ==
    /\ cli_call.op = "init"
    /\ LET provider == get_ai_provider(cli_cfg.ai)
           enriched == IF provider.raised # "none" \/ provider.value = "None"
                          \/ cli_in = <<>>
                       THEN NoEnrichment
                       ELSE enrich_issues(provider.value, cli_in, 10)
       IN  /\ cli_call' = CliCall("enrich_file", <<>>, 10, provider, enriched)
           /\ cli_in' = IF provider.raised # "none" \/ provider.value = "None"
                           \/ cli_in = <<>>
                        THEN cli_in
                        ELSE enriched.returned
    /\ UNCHANGED <<cli_cfg, aggVars, engVars, pmVars, regVars, fltVars>>

\* the AI block of the analyze command run with --ai, cli_in being
\* result.get_all_issues(): AI is enabled in the config, then
\* AIEnrichment(config) is built and enrich_issues called with
\* max_issues=10; an exception of the constructor is caught and printed
AnalyzeAi ==
    /\ cli_call.op = "init"
    /\ cli_cfg' = [cli_cfg EXCEPT !.ai.enabled = TRUE]
    /\ LET provider == get_ai_provider(cli_cfg'.ai)
       IN  cli_call' = CliCall("analyze_ai", <<>>, 10, provider,
                           IF provider.raised # "none"
                              \/ provider.value = "None"
                           THEN NoEnrichment
                           ELSE enrich_issues(provider.value, cli_in, 10))
    /\ UNCHANGED <<cli_in, aggVars, engVars, pmVars, regVars, fltVars>>

\* the calls on a Config
ConfigNext == Validate

\* the calls on an AIEnrichment
EnrichNext ==
    \/ EnrichIssues
    \/ EnrichFileAnalysis

\* the analyze command
CliNext == AnalyzeAi

-----------------------------------------------------------------------------
(* Specifications *)

\* the engine does not run while the aggregator harness does
EngIdle ==
    /\ files = <<>>
    /\ parallel = FALSE
    /\ task = <<>>
    /\ heap = <<>>
    /\ an_issues = <<>>
    /\ results = <<>>
    /\ phase = "idle"
    /\ final = <<>>
    /\ dispatched = <<>>
    /\ totals = "idle"

\* no PatternMatcher is in use
PmIdle ==
    /\ pm_matcher = [rules |-> <<>>, compiled |-> <<>>]
    /\ pm_call = "idle"

\* the registry is not in use
RegIdle ==
    /\ analyzers = <<>>
    /\ reg_call = "idle"

\* no filter is called
FltIdle ==
    /\ flt_in = <<>>
    /\ flt_call = "idle"

\* neither the configuration nor the enrichment is in use
CliIdle ==
    /\ cli_cfg = "idle"
    /\ cli_in = <<>>
    /\ cli_call = "idle"

InitAgg ==
    /\ AggInit
    /\ EngIdle
    /\ PmIdle
    /\ RegIdle
    /\ FltIdle
    /\ CliIdle

SpecAgg == InitAgg /\ [][AggNext]_vars

InitRank ==
    /\ RankInit
    /\ EngIdle
    /\ PmIdle
    /\ RegIdle
    /\ FltIdle
    /\ CliIdle

SpecRank == InitRank /\ [][RankNext]_vars

\* the aggregator harness does not run while the engine does
AggIdle ==
    /\ agg_in = <<>>
    /\ agg_out = <<>>
    /\ agg_prev = <<>>
    /\ agg_op = "idle"

InitEngine ==
    /\ EngInit
    /\ AggIdle
    /\ PmIdle
    /\ RegIdle
    /\ FltIdle
    /\ CliIdle

SpecEngine == InitEngine /\ [][EngNext]_vars

\* a worker of the pool runs its analyze_file call to its end and the
\* dispatching thread waits in as_completed for every future, so a step of
\* a file's analysis that is possible is eventually taken
SpecEngineFair ==
    /\ InitEngine
    /\ [][EngNext]_vars
    /\ WF_vars(\E i \in 1..Len(files) :
                  \/ Start(i)
                  \/ enter_analyze_file(i)
                  \/ Parse(i)
                  \/ LoadIssues(i)
                  \/ Check(i)
                  \/ SyntaxAppend(i)
                  \/ Return(i)
                  \/ Pattern(i)
                  \/ Collect(i))

InitMatcher ==
    /\ PmInit
    /\ AggIdle
    /\ EngIdle
    /\ RegIdle
    /\ FltIdle
    /\ CliIdle

SpecMatcher == InitMatcher /\ [][PmNext]_vars

InitRegistry ==
    /\ RegInit
    /\ AggIdle
    /\ EngIdle
    /\ PmIdle
    /\ FltIdle
    /\ CliIdle

SpecRegistry == InitRegistry /\ [][RegNext]_vars

InitFilter ==
    /\ FltInit
    /\ AggIdle
    /\ EngIdle
    /\ PmIdle
    /\ RegIdle
    /\ CliIdle

SpecFilter == InitFilter /\ [][FltNext]_vars

InitCli ==
    /\ CliInit
    /\ AggIdle
    /\ EngIdle
    /\ PmIdle
    /\ RegIdle
    /\ FltIdle

SpecCli == InitCli /\ [][CliNext]_vars

SpecEnrich == InitCli /\ [][EnrichNext]_vars

SpecConfig == InitCli /\ [][ConfigNext]_vars

-----------------------------------------------------------------------------
(* Claims about the aggregator *)

\* the elements of s at the positions in idx, in the order of s
RECURSIVE SubSeqAt(_, _, _)
SubSeqAt(s, idx, k) ==
    IF k > Len(s) THEN <<>>
    ELSE (IF k \in idx THEN <<s[k]>> ELSE <<>>) \o SubSeqAt(s, idx, k + 1)

\* the signature as the specification defines it: a tuple
TupleSignature(issue) ==
    <<issue.file_path, issue.line_start, issue.title, issue.category>>

\* positions of s that hold the first issue carrying their tuple signature
FirstOccurrences(s) ==
    {k \in 1..Len(s) :
        \A j \in 1..(k - 1) : TupleSignature(s[j]) # TupleSignature(s[k])}

\* C1: deduplicate_issues is idempotent: applied to its own result it
\* returns that result unchanged (same issues, same order).
C1_DedupIdempotent ==
    agg_op = "dedup2" => agg_out = agg_prev

\* C1 witness: the first call dropped a duplicate and still returned two or
\* more issues, and the second call has been made.
C1_Witness ==
    /\ agg_op = "dedup2"
    /\ Len(agg_prev) < Len(agg_in)
    /\ Len(agg_prev) >= 2

\* C2: deduplicate_issues returns the subsequence of its input that keeps,
\* for each signature tuple (file path, start line, title, category), exactly
\* the first issue carrying it; no two output issues share a tuple and every
\* tuple of the input appears in the output.
C2_DedupFirstWins ==
    agg_op = "dedup" =>
        /\ agg_out = SubSeqAt(agg_in, FirstOccurrences(agg_in), 1)
        /\ \A i, j \in 1..Len(agg_out) :
              i # j => TupleSignature(agg_out[i]) # TupleSignature(agg_out[j])
        /\ \A k \in 1..Len(agg_in) :
              \E i \in 1..Len(agg_out) :
                  TupleSignature(agg_out[i]) = TupleSignature(agg_in[k])

\* the issues of s whose priority is v, in the order of s
WithPriority(s, v) ==
    LET Test(x) == calculate_priority(x) = v IN SelectSeq(s, Test)

\* C3: rank_issues is a stable sort: the issues of equal computed priority
\* appear in the output in the same relative order as in the input.
C3_RankStable ==
    agg_op = "rank" =>
        \A k \in 1..Len(agg_in) :
            LET v == calculate_priority(agg_in[k])
            IN  WithPriority(agg_out, v) = WithPriority(agg_in, v)

\* C3 witness: a ranked list in which two different issues tie and a third
\* one of higher priority was moved in front of them.
C3_Witness ==
    /\ agg_op = "rank"
    /\ Len(agg_out) = 3
    /\ agg_out # agg_in
    /\ \E i, j \in 1..3 :
          /\ i < j
          /\ calculate_priority(agg_out[i]) = calculate_priority(agg_out[j])
          /\ agg_out[i].category # agg_out[j].category

\* the score as the specification states it, times ConfScale
ClaimSeverityWeight(s) ==
    CASE s = "critical" -> 100 [] s = "high" -> 75 [] s = "medium" -> 50
      [] s = "low" -> 25 [] s = "info" -> 10

ClaimCategoryWeight(c) ==
    CASE c = "security" -> 20 [] c = "bug" -> 15 [] c = "type_error" -> 10
      [] c = "performance" -> 8 [] c = "best_practice" -> 5
      [] c = "complexity" -> 4 [] c = "code_smell" -> 3
      [] c = "maintainability" -> 3 [] c = "duplication" -> 2
      [] c = "style" -> 1

ClaimScore(issue) ==
    (ClaimSeverityWeight(issue.severity)
        + ClaimCategoryWeight(issue.category)) * issue.confidence
    + (IF issue.auto_fixable THEN 5 * ConfScale ELSE 0)

\* how often x occurs in s
Count(s, x) == Cardinality({k \in 1..Len(s) : s[k] = x})

\* C4: rank_issues returns a permutation of its input in non-increasing
\* score order, score = (severity weight + category weight) * confidence
\* + 5 if auto_fixable, with the weights of the specification.
C4_RankSortedPermutation ==
    agg_op = "rank" =>
        /\ Len(agg_out) = Len(agg_in)
        /\ \A k \in 1..Len(agg_in) :
              Count(agg_out, agg_in[k]) = Count(agg_in, agg_in[k])
        /\ \A k \in 1..(Len(agg_out) - 1) :
              ClaimScore(agg_out[k]) >= ClaimScore(agg_out[k + 1])

\* C4 witness: a ranked list of three issues of three different scores, one
\* of them with a confidence below 1, that was not sorted on input.
C4_Witness ==
    /\ agg_op = "rank"
    /\ Len(agg_out) = 3
    /\ agg_out # agg_in
    /\ ClaimScore(agg_out[1]) > ClaimScore(agg_out[2])
    /\ ClaimScore(agg_out[2]) > ClaimScore(agg_out[3])
    /\ \E k \in 1..3 : agg_out[k].confidence < ConfScale

-----------------------------------------------------------------------------
(* Claims about the engine *)

\* analyze_file has returned the FileAnalysis of file i
Returned(i) == task[i].pc \in {"finished", "collected"}

\* the analysis of file i raised an Exception inside the detector
Raised(i) ==
    /\ get_analyzer(files[i].suffix) # 0
    /\ parse_outcome(get_analyzer(files[i].suffix), files[i])
          \in {"unreadable", "fault"}

\* FileDiscovery.detect_language for the suffixes of the candidate files
detect_language(suffix) ==
    CASE suffix = ".py" -> "python"
      [] suffix = ".js" -> "javascript"
      [] suffix = ".go" -> "go"

\* what analyze_file returns for one file when no other analysis runs at the
\* same time: the issues of the record
AloneIssues(file) ==
    LET a == get_analyzer(file.suffix)
        outcome == IF a = 0 THEN "none" ELSE parse_outcome(a, file)
        lang == IF outcome = "ok" THEN analysis_language(a, file.suffix)
                ELSE IF outcome = "syntax" THEN "python"
                ELSE IF a = 0 THEN "unknown" ELSE failure_language(a)
        own == IF outcome = "ok"
               THEN check_findings(a, file.path, file.content)
               ELSE IF outcome = "syntax"
               THEN <<syntax_error_issue(file.path,
                         ast_parse(file.content).lineno,
                         ast_parse(file.content).msg)>>
               ELSE <<>>
    IN  IF a = 0 \/ ~file.readable THEN own
        ELSE own \o match_file(pattern_matcher.rules,
                               pattern_matcher.compiled, file.path,
                               file.content, lang)

\* ... and the other fields of the record, its issues being object k
AloneAnalysis(file, k) ==
    LET a == get_analyzer(file.suffix)
        outcome == IF a = 0 THEN "none" ELSE parse_outcome(a, file)
    IN  IF a = 0
        THEN FileAnalysis(file.path, "unknown", k, FALSE,
                          "No analyzer available for this file type")
        ELSE IF outcome \in {"unreadable", "fault"}
        THEN FileAnalysis(file.path, failure_language(a), k, FALSE,
                          error_message(file))
        ELSE FileAnalysis(file.path, analysis_language(a, file.suffix), k,
                          TRUE, "none")

\* the result of analyze_path when the analyses complete one after the
\* other in the order of the discovered files
OrderedResult ==
    LET objects == [k \in 1..Len(files) |-> AloneIssues(files[k])]
        records == [k \in 1..Len(files) |-> AloneAnalysis(files[k], k)]
    IN  update_file_analyses_with_ranked_issues(records,
            rank_issues(deduplicate_issues(get_all_issues(records, objects, 1))))

\* C5: in parallel mode the final result of analyze_path (the order of the
\* FileRecords and the issue list of each) is the same for every order in
\* which the concurrent analyses complete: it is the result of the run in
\* which they complete in the order of the discovered files.
C5_ParallelDeterministic ==
    (phase = "done" /\ parallel) => final = OrderedResult

\* C6: when files are analyzed concurrently by workers sharing a detector
\* instance, every issue in the FileRecord analyze_file returned for a file
\* is located in that file, and no two FileRecords share an issue buffer.
C6_NoSharedBuffer ==
    parallel =>
        /\ \A i \in 1..Len(files) :
              Returned(i) =>
                  \A k \in 1..Len(heap[task[i].fa.issues]) :
                      heap[task[i].fa.issues][k].file_path = files[i].path
        /\ \A i, j \in 1..Len(files) :
              (i # j /\ Returned(i) /\ Returned(j)) =>
                  task[i].fa.issues # task[j].fa.issues

\* C7: in sequential and in parallel mode the result of analyze_path holds
\* exactly one FileRecord for each discovered file, and the FileRecord of a
\* file whose analysis raised an exception has success = false and an error
\* message (error is neither None nor the empty string); the run is not
\* aborted.
C7_FailureIsolated ==
    phase = "done" =>
        /\ Len(final) = Len(files)
        /\ \A i \in 1..Len(files) :
              /\ Cardinality({k \in 1..Len(final) :
                                 final[k].file_path = files[i].path}) = 1
              /\ Raised(i) =>
                    \A k \in 1..Len(final) :
                        final[k].file_path = files[i].path =>
                            /\ final[k].success = FALSE
                            /\ final[k].error \notin {"none", ""}

\* C8: every FileRecord with success = false has an empty issue list, as
\* returned by analyze_file and in the result of analyze_path.
C8_FailedHasNoIssues ==
    /\ \A i \in 1..Len(files) :
          (Returned(i) /\ ~task[i].fa.success) =>
              heap[task[i].fa.issues] = <<>>
    /\ phase = "done" =>
          \A k \in 1..Len(final) :
              ~final[k].success => final[k].issues = <<>>

\* the stage of file i: 0 Pending, 1 Analyzing, 2 Succeeded or Failed
Stage(i) ==
    IF task[i].pc = "pending" THEN 0 ELSE IF Returned(i) THEN 2 ELSE 1

\* C9: each discovered file goes Pending -> Analyzing -> Succeeded or Failed
\* once: it is dispatched exactly once (a file that left Pending has been
\* dispatched once, and no file, Failed or not, is ever dispatched a second
\* time), its stage only moves forward one stage at a time and never leaves
\* Succeeded or Failed, and from some moment on every file is Succeeded or
\* Failed for good.
C9_FileLifecycle ==
    /\ [](\A i \in 1..Len(files) :
             /\ dispatched[i] <= 1
             /\ (Stage(i) > 0) = (dispatched[i] = 1))
    /\ [][\A i \in 1..Len(files) :
             /\ Stage(i)' \in {Stage(i), Stage(i) + 1}
             /\ Stage(i) = 2 => Stage(i)' = 2]_vars
    /\ <>[](\A i \in 1..Len(files) : Stage(i) = 2 /\ dispatched[i] = 1)

\* C9 witness: a run of two files is over, one file Failed and one
\* Succeeded, each dispatched once.
C9_Witness ==
    /\ phase = "done"
    /\ Len(files) = 2
    /\ \A i \in 1..2 : Stage(i) = 2 /\ dispatched[i] = 1
    /\ \E i, j \in 1..2 : ~task[i].fa.success /\ task[j].fa.success

\* C10: for every discovered file that can be read, analyze_file runs the
\* pattern detector, whichever detector handled the file, and the returned
\* FileRecord holds every issue match_file produces for the file.
C10_PatternAlwaysRuns ==
    \A i \in 1..Len(files) :
        (Returned(i) /\ files[i].readable) =>
            /\ task[i].matched
            /\ LET found == match_file(pattern_matcher.rules,
                                       pattern_matcher.compiled,
                                       files[i].path, files[i].content,
                                       detect_language(files[i].suffix))
                   held == heap[task[i].fa.issues]
               IN  \A m \in 1..Len(found) :
                       \E k \in 1..Len(held) : held[k] = found[m]

-----------------------------------------------------------------------------
(* Claims about the pattern matcher *)

\* the rules of the matcher that carry the given name (rule names tell the
\* drawn rules apart; ids do not)
RulesNamed(name) ==
    {r \in 1..Len(pm_matcher.rules) : pm_matcher.rules[r].name = name}

\* the rules of the matcher that list the language, in catalog order
RulesListing(language) ==
    LET Lists(rule) == language \in rule.languages
    IN  SelectSeq(pm_matcher.rules, Lists)

\* C11: every issue match_file(path, content, language) returns comes from a
\* rule whose languages contain that language, and the rules that do not
\* list the language add nothing to the result, even when their pattern
\* matches a line.
C11_LanguageFilter ==
    pm_call.op = "match" =>
        /\ \A k \in 1..Len(pm_call.issues) :
              \A r \in RulesNamed(pm_call.issues[k].title) :
                  pm_call.language \in pm_matcher.rules[r].languages
        /\ pm_call.issues =
              match_file(RulesListing(pm_call.language), pm_matcher.compiled,
                         "m.src", pm_call.lines, pm_call.language)

\* C11 witness: match_file returned issues for a language although a rule
\* that does not list the language has a pattern matching a line.
C11_Witness ==
    /\ pm_call.op = "match"
    /\ pm_call.issues # <<>>
    /\ \E r \in 1..Len(pm_matcher.rules), l \in 1..Len(pm_call.lines) :
          /\ pm_call.language \notin pm_matcher.rules[r].languages
          /\ pm_matcher.rules[r].id \in DOMAIN pm_matcher.compiled
          /\ finditer_count(pm_matcher.compiled[pm_matcher.rules[r].id],
                            pm_call.lines[l]) > 0

\* C12: a rule whose own pattern failed to compile in add_rule never
\* produces an issue in match_file, and every rule whose pattern compiled
\* still yields the matches of its own pattern, after any sequence of
\* add_rule calls.
C12_CompileFailureSkipped ==
    pm_call.op = "match" =>
        /\ \A k \in 1..Len(pm_call.issues) :
              \A r \in RulesNamed(pm_call.issues[k].title) :
                  re_compile_ok(pm_matcher.rules[r].pattern)
        /\ \A r \in 1..Len(pm_matcher.rules) :
              LET rule == pm_matcher.rules[r]
                  own == rule_issues(rule, rule.pattern, "m.src",
                                     pm_call.lines, 1)
              IN  (re_compile_ok(rule.pattern)
                   /\ pm_call.language \in rule.languages) =>
                      \A m \in 1..Len(own) :
                          \E k \in 1..Len(pm_call.issues) :
                              pm_call.issues[k] = own[m]

\* C13: load_custom_rules keeps every rule registered before the load and
\* registers every well-formed entry of the rule file, also when a
\* malformed entry precedes it.
C13_LoadSkipsMalformed ==
    pm_call.op = "load" =>
        /\ Len(pm_matcher.rules) >= Len(pm_call.before.rules)
        /\ SubSeq(pm_matcher.rules, 1, Len(pm_call.before.rules))
              = pm_call.before.rules
        /\ \A e \in 1..Len(pm_call.entries) :
              ~entry_raises(pm_call.entries[e]) =>
                  \E r \in (Len(pm_call.before.rules) + 1)
                              ..Len(pm_matcher.rules) :
                      pm_matcher.rules[r] = entry_rule(pm_call.entries[e])

-----------------------------------------------------------------------------
(* Claims about the analyzer registry *)

\* the positions of the registered analyzers that accept the suffix
Accepting(suffix) ==
    {a \in 1..Len(analyzers) : suffix \in analyzers[a].suffixes}

\* C14: after any sequence of register calls get_analyzer(path) returns the
\* earliest-registered analyzer whose can_analyze accepts the path, and None
\* when no registered analyzer accepts it.
C14_FirstRegisteredWins ==
    reg_call.op = "get_analyzer" =>
        IF Accepting(reg_call.suffix) = {}
        THEN reg_call.found = 0
        ELSE /\ reg_call.found \in Accepting(reg_call.suffix)
             /\ \A b \in Accepting(reg_call.suffix) : reg_call.found <= b

\* C14 witness: get_analyzer returned the earlier of two registered
\* analyzers of different classes that both accept the path.
C14_Witness ==
    /\ reg_call.op = "get_analyzer"
    /\ \E a, b \in Accepting(reg_call.suffix) :
          /\ a < b
          /\ analyzers[a] # analyzers[b]
          /\ reg_call.found = a

\* C15: with the default analyzers registered by one AnalysisEngine,
\* get_analyzer for a .ts or .tsx path returns the TypeScript analyzer.
C15_SpecificDetectorWins ==
    (/\ reg_call.op = "get_analyzer"
     /\ analyzers = register_default_analyzers(<<>>)
     /\ reg_call.suffix \in {".ts", ".tsx"}) =>
        /\ reg_call.found # 0
        /\ analyzers[reg_call.found].language = "typescript"

\* C16: after any sequence of registrations, those of a second
\* AnalysisEngine included, get_supported_languages returns each language
\* id at most once.
C16_DistinctLanguages ==
    reg_call.op = "languages" =>
        \A i, j \in 1..Len(reg_call.languages) :
            i # j => reg_call.languages[i] # reg_call.languages[j]

-----------------------------------------------------------------------------
(* Claims about filtering and grouping *)

\* the issues of `issues` whose severity is at least `severity` in the order
\* INFO < LOW < MEDIUM < HIGH < CRITICAL, in input order
AtLeast(issues, severity) ==
    LET Test(issue) ==
            severity_index(issue.severity) >= severity_index(severity)
    IN  SelectSeq(issues, Test)

\* C17: filter_issues returns, in input order, exactly the issues that pass
\* every predicate given (severity at least min_severity, category among
\* categories, auto_fixable), and raises for no value of min_severity.
C17_FilterIssues ==
    flt_call.op = "filter" =>
        LET Keeps(issue) ==
                /\ flt_call.min_severity # "none" =>
                      severity_index(issue.severity)
                          >= severity_index(flt_call.min_severity)
                /\ flt_call.categories.given =>
                      issue.category \in flt_call.categories.values
                /\ flt_call.auto_fixable_only => issue.auto_fixable
        IN  /\ flt_call.outcome.raised = "none"
            /\ flt_call.outcome.value = SelectSeq(flt_in, Keeps)

\* C18: the severity filter of the analyze command with value S keeps in a
\* FileRecord exactly the issues whose severity is at least S; no CRITICAL
\* issue is removed for any S.
C18_CliSeverityFilter ==
    flt_call.op = "cli" =>
        /\ flt_call.outcome.value = AtLeast(flt_in, flt_call.min_severity)
        /\ \A k \in 1..Len(flt_in) :
              flt_in[k].severity = "critical" =>
                  \E m \in 1..Len(flt_call.outcome.value) :
                      flt_call.outcome.value[m] = flt_in[k]

\* the two issues pass the similarity test of the specification: same
\* category, same severity, title and description ratio at least the
\* threshold
SimilarPair(a, b) ==
    /\ a.category = b.category
    /\ a.severity = b.severity
    /\ ~ratio_below_threshold(a.title, b.title)
    /\ ~ratio_below_threshold(a.description, b.description)

\* every member of every group is similar to the group's first member
GroupedWithFirst ==
    flt_call.op = "similar" =>
        \A g \in 1..Len(flt_call.groups) :
            \A k \in 2..Len(flt_call.groups[g].group) :
                SimilarPair(flt_call.groups[g].group[1],
                            flt_call.groups[g].group[k])

\* C19: find_similar_issues puts an issue into a group only when it is
\* similar to the group's first member, and no group holds two issues with
\* the same title and category whose description similarity is below the
\* threshold.
C19_SimilarGroupsSound ==
    /\ GroupedWithFirst
    /\ flt_call.op = "similar" =>
          \A g \in 1..Len(flt_call.groups) :
              \A k, m \in 1..Len(flt_call.groups[g].group) :
                  LET a == flt_call.groups[g].group[k]
                      b == flt_call.groups[g].group[m]
                  IN  (a.title = b.title /\ a.category = b.category) =>
                          ~ratio_below_threshold(a.description,
                                                 b.description)

-----------------------------------------------------------------------------
(* Claims about the counts of the result *)

RECURSIVE SumOver(_, _)
\* the sum of the values of a function with a finite domain
SumOver(f, keys) ==
    IF keys = {} THEN 0
    ELSE LET key == CHOOSE x \in keys : TRUE
         IN  f[key] + SumOver(f, keys \ {key})

\* C20: after analyze_path returned, total_issues and the summary's
\* total_issues equal the number of issues the result holds, which equals
\* the sum of the severity counts and the sum of the category counts, and
\* total_files equals the number of FileRecords, also when deduplication
\* removed issues.
C20_CountsAgree ==
    phase = "done" =>
        LET held == Len(issues_held(final, 1))
        IN  /\ totals.total_issues = held
            /\ totals.summary_total_issues = held
            /\ SumOver(totals.severity_counts, Severities) = held
            /\ SumOver(totals.category_counts, Categories) = held
            /\ totals.total_files = Len(final)
            /\ totals.summary_total_files = Len(final)

-----------------------------------------------------------------------------
(* Claims about the enrichment and the configuration *)

\* C21: enrich_issues hands at most max_issues issues to the provider, and
\* every issue it hands over is at least as severe, in the order
\* INFO < LOW < MEDIUM < HIGH < CRITICAL, as every issue it leaves out.
C21_EnrichMostSevereFirst ==
    (cli_call.op = "enrich" /\ cli_call.provider.raised = "none"
        /\ cli_call.provider.value # "None") =>
        LET sent == cli_call.enriched.sent
            returned == cli_call.enriched.returned
        IN  /\ Len(sent) <= cli_call.max_issues
            /\ \A k \in 1..Len(sent) :
                   \A m \in (Len(sent) + 1)..Len(returned) :
                       severity_index(sent[k].severity)
                           >= severity_index(returned[m].severity)

\* the words "API key" occur in the error message
MentionsApiKey(error) ==
    error \in {"OpenAI API key not configured",
               "Anthropic API key not configured",
               "Warning: OpenAI API key not set (AI features will be disabled)",
               "Warning: Anthropic API key not set (AI features will be disabled)"}

\* C25: validate returns a non-empty list of errors, one of which mentions
\* "API key", whenever AI is enabled with provider "openai" and no OpenAI
\* API key is set.
C25_ValidateReportsMissingKey ==
    (cli_call.op = "validate" /\ cli_cfg.ai.enabled
        /\ cli_cfg.ai.provider = "openai"
        /\ cli_cfg.ai.openai_api_key = "none") =>
        /\ cli_call.errors # <<>>
        /\ \E k \in 1..Len(cli_call.errors) :
               MentionsApiKey(cli_call.errors[k])

-----------------------------------------------------------------------------
(* Claims about the detectors and the final result *)

\* PythonAnalyzer.analyze_file has returned for file i and the engine has
\* not yet added the pattern issues
DetectorReturned(i) ==
    /\ task[i].pc = "pattern"
    /\ get_analyzer(files[i].suffix) # 0
    /\ registry[get_analyzer(files[i].suffix)].language = "python"

\* C22: when the parse of a Python file fails, analyze_file of the Python
\* detector returns success = true with exactly one issue, CRITICAL and BUG,
\* at the parser's error line; success = false is returned only when the
\* detector could not complete (the file cannot be read or the detector
\* raised).
C22_ParseFailureIsOneIssue ==
    phase = "analyzing" =>
        \A i \in 1..Len(files) :
            DetectorReturned(i) =>
                LET outcome == parse_outcome(get_analyzer(files[i].suffix),
                                             files[i])
                    issues == heap[task[i].fa.issues]
                    e == ast_parse(files[i].content)
                IN  /\ outcome \in {"syntax", "fault"} =>
                        /\ task[i].fa.success
                        /\ Len(issues) = 1
                        /\ issues[1].severity = "critical"
                        /\ issues[1].category = "bug"
                        /\ outcome = "syntax" =>
                               issues[1].line_start = e.lineno
                    /\ ~task[i].fa.success => outcome \notin {"ok", "syntax"}

\* the positions of a list that hold an issue of the file, severity,
\* category and title
PositionsOf(issues, file_path, severity, category, title) ==
    {k \in 1..Len(issues) :
        /\ issues[k].file_path = file_path
        /\ issues[k].severity = severity
        /\ issues[k].category = category
        /\ issues[k].title = title}

\* the hardcoded-password issues, the bare-except issues and the
\* identity-literal issues of a file in a list
PasswordPositions(issues, file_path) ==
    PositionsOf(issues, file_path, "critical", "security",
                "Hardcoded Password")

BareExceptPositions(issues, file_path) ==
    PositionsOf(issues, file_path, "medium", "best_practice",
                "Bare Except Clause")

IdentityLiteralPositions(issues, file_path) ==
    PositionsOf(issues, file_path, "medium", "bug",
                "Identity Check with Literal")

\* the analyses of the run yielded all three kinds of issue for the file
YieldsAllThree(file_path) ==
    LET all_issues == get_all_issues(results, heap, 1)
    IN  /\ PasswordPositions(all_issues, file_path) # {}
        /\ BareExceptPositions(all_issues, file_path) # {}
        /\ IdentityLiteralPositions(all_issues, file_path) # {}

\* C23: when a Python file yields a CRITICAL SECURITY hardcoded-password
\* issue, a MEDIUM bare-except issue and a MEDIUM BUG identity-literal
\* issue, the final issue list of the file's record holds all three, the
\* CRITICAL issue before both MEDIUM issues.
C23_CriticalSecretFirst ==
    phase = "done" =>
        \A k \in 1..Len(final) :
            YieldsAllThree(final[k].file_path) =>
                LET issues == final[k].issues
                    path == final[k].file_path
                IN  /\ PasswordPositions(issues, path) # {}
                    /\ BareExceptPositions(issues, path) # {}
                    /\ IdentityLiteralPositions(issues, path) # {}
                    /\ \A c \in PasswordPositions(issues, path) :
                           \A m \in BareExceptPositions(issues, path)
                                    \cup IdentityLiteralPositions(issues, path) :
                               c < m

\* a finished run over a Python file that yielded the three issues
C23_Witness ==
    /\ phase = "done"
    /\ \E k \in 1..Len(final) :
          /\ YieldsAllThree(final[k].file_path)
          /\ Len(final[k].issues) = 3
          /\ final[k].issues[1].severity = "critical"

\* C24: the project-level list get_all_issues() of the final result is in
\* non-increasing order of the priority score and holds no two issues with
\* the same signature (file path, start line, title, category).
C24_ProjectListRanked ==
    phase = "done" =>
        LET all_issues == issues_held(final, 1)
        IN  /\ \A k \in 1..(Len(all_issues) - 1) :
                   calculate_priority(all_issues[k])
                       >= calculate_priority(all_issues[k + 1])
            /\ \A k, m \in 1..Len(all_issues) :
                   TupleSignature(all_issues[k]) = TupleSignature(all_issues[m])
                       => k = m

\* the project-level list holds no two issues with the same signature
ProjectListDeduplicated ==
    phase = "done" =>
        LET all_issues == issues_held(final, 1)
        IN  \A k, m \in 1..Len(all_issues) :
                TupleSignature(all_issues[k]) = TupleSignature(all_issues[m])
                    => k = m

\* the ranked, deduplicated list analyze_path computed from the results
RankedList == rank_issues(deduplicate_issues(get_all_issues(results, heap, 1)))

\* the positions of the ranked list whose issue is at the file path
RankedPositions(file_path) ==
    {j \in 1..Len(RankedList) : RankedList[j].file_path = file_path}

\* C27: after the re-partition the issue list of each record is the
\* subsequence of the ranked, deduplicated list at the record's file path,
\* in ranked order; every ranked issue is in exactly one record and no
\* issue is added.
C27_RepartitionPreserves ==
    phase = "done" =>
        /\ Len(final) = Len(results)
        /\ \A k \in 1..Len(final) :
               /\ final[k].file_path = results[k].file_path
               /\ final[k].issues =
                      SubSeqAt(RankedList,
                               RankedPositions(final[k].file_path), 1)
        /\ \A j \in 1..Len(RankedList) :
               Cardinality({k \in 1..Len(final) :
                   \E m \in 1..Len(final[k].issues) :
                       final[k].issues[m] = RankedList[j]}) = 1
        /\ Len(issues_held(final, 1)) = Len(RankedList)

\* a finished run in which the ranked list interleaves two files: its first
\* issue belongs to the second record, its second to the first
C27_Witness ==
    /\ phase = "done"
    /\ Len(final) = 2
    /\ Len(RankedList) >= 3
    /\ RankedList[1].file_path = final[2].file_path
    /\ RankedList[2].file_path = final[1].file_path
    /\ RankedList[3].file_path = final[2].file_path

\* the record _analyze_parallel or _analyze_sequential returned for file i
RecordOf(i) ==
    results[CHOOSE k \in 1..Len(results) :
                results[k].file_path = files[i].path]

\* C28: for the same files _analyze_parallel produces what
\* _analyze_sequential produces: for each file a record with the same
\* success flag and the same issues, none lost and none duplicated because
\* another file was analyzed at the same time by the same detector
\* instance.
C28_ParallelEqualsSequential ==
    (parallel /\ Len(results) = Len(files)) =>
        \A i \in 1..Len(files) :
            LET sequential == AloneIssues(files[i])
                produced == heap[RecordOf(i).issues]
            IN  /\ RecordOf(i).success = AloneAnalysis(files[i], 0).success
                /\ Len(produced) = Len(sequential)
                /\ \A k \in 1..Len(sequential) :
                       Count(produced, sequential[k])
                           = Count(sequential, sequential[k])

-----------------------------------------------------------------------------
(* Claims about the ranking of issues of confidence 1.0 *)

\* every issue handed to rank_issues has confidence 1.0
AllConfident == \A k \in 1..Len(agg_in) : agg_in[k].confidence = ConfScale

\* the ranked list places an issue of strictly lower severity before an
\* issue of strictly higher severity
LowerBeforeHigher(i, j) ==
    /\ i < j
    /\ severity_index(agg_out[i].severity)
           < severity_index(agg_out[j].severity)

\* C29 as amended: for issues of confidence 1.0, rank_issues places no issue
\* of strictly lower severity before an issue of severity MEDIUM, HIGH or
\* CRITICAL, for every combination of categories and auto_fixable flags;
\* the only inversion of the Severity order it produces is an INFO issue
\* before a LOW issue.
C29_RankRespectsSeverityFromMedium ==
    (agg_op = "rank" /\ AllConfident) =>
        \A i, j \in 1..Len(agg_out) :
            LowerBeforeHigher(i, j) =>
                /\ agg_out[i].severity = "info"
                /\ agg_out[j].severity = "low"

\* C29 as stated: for issues of confidence 1.0, rank_issues never places an
\* issue of strictly lower severity before an issue of strictly higher
\* severity.
C29_RankRespectsSeverity ==
    (agg_op = "rank" /\ AllConfident) =>
        \A i, j \in 1..Len(agg_out) : ~LowerBeforeHigher(i, j)

\* C29 witness: an auto-fixable HIGH SECURITY issue (score 100) was handed
\* over before a CRITICAL STYLE issue (score 101), and the ranking put the
\* CRITICAL issue first
C29_Witness ==
    /\ agg_op = "rank"
    /\ AllConfident
    /\ Len(agg_in) = 2
    /\ agg_in[1].severity = "high" /\ agg_in[1].category = "security"
    /\ agg_in[1].auto_fixable
    /\ agg_in[2].severity = "critical" /\ agg_in[2].category = "style"
    /\ ~agg_in[2].auto_fixable
    /\ agg_out = <<agg_in[2], agg_in[1]>>

-----------------------------------------------------------------------------
(* Claims about the grouping through the first member *)

\* the ids of the list are pairwise distinct
DistinctIds(issues) ==
    \A i, j \in 1..Len(issues) : issues[i].id = issues[j].id => i = j

RECURSIVE Representative(_, _)
\* scanning in input order, the issue at position i is reached ungrouped
\* and stands for a group of its own: it is similar to no representative
\* before it
Representative(issues, i) ==
    \A r \in 1..(i - 1) :
        Representative(issues, r) => ~SimilarPair(issues[r], issues[i])

\* the issue at position i joins the representative at position r: r is the
\* earliest representative before i that i is similar to
JoinsRepresentative(issues, i, r) ==
    /\ r < i
    /\ Representative(issues, r)
    /\ SimilarPair(issues[r], issues[i])
    /\ \A q \in 1..(r - 1) :
           Representative(issues, q) => ~SimilarPair(issues[q], issues[i])

RECURSIVE JoinedFrom(_, _, _)
\* the issues from position i on that join the representative at r, in
\* input order
JoinedFrom(issues, r, i) ==
    IF i > Len(issues) THEN <<>>
    ELSE (IF JoinsRepresentative(issues, i, r) THEN <<issues[i]>> ELSE <<>>)
         \o JoinedFrom(issues, r, i + 1)

RECURSIVE GroupsByEarliestRepresentative(_, _)
\* the groups the claim describes for a list of distinct ids, from position
\* r on: one for every representative that some issue joins, keyed by the
\* representative's id, in the order of the representatives
GroupsByEarliestRepresentative(issues, r) ==
    IF r > Len(issues) THEN <<>>
    ELSE (IF Representative(issues, r) /\ JoinedFrom(issues, r, 1) # <<>>
          THEN <<[key |-> issues[r].id,
                  group |-> <<issues[r]>> \o JoinedFrom(issues, r, 1)]>>
          ELSE <<>>)
         \o GroupsByEarliestRepresentative(issues, r + 1)

\* C26: find_similar_issues groups only through the group's first member:
\* every member of a group is similar to the group's first member; for a
\* list of distinct ids the groups returned are exactly those in which
\* every issue that is not a representative sits with the earliest
\* representative it is similar to; no member of a later group is similar
\* to the first member of an earlier group, every issue is in at most one
\* group, every group has at least two members and is keyed by the id of
\* its first member; similarity is not closed transitively.
C26_GroupsThroughFirstMember ==
    flt_call.op = "similar" =>
        LET groups == flt_call.groups
        IN  /\ GroupedWithFirst
            /\ DistinctIds(flt_in) =>
                   groups = GroupsByEarliestRepresentative(flt_in, 1)
            /\ \A g \in 1..Len(groups) :
                   /\ Len(groups[g].group) >= 2
                   /\ groups[g].key = groups[g].group[1].id
                   /\ \A k \in 1..Len(groups[g].group) :
                          \E p \in 1..Len(flt_in) :
                              flt_in[p] = groups[g].group[k]
            /\ \A g, h \in 1..Len(groups) :
                   \A k \in 1..Len(groups[g].group) :
                       \A m \in 1..Len(groups[h].group) :
                           groups[g].group[k] = groups[h].group[m]
                               => (g = h /\ k = m)
            /\ \A g, h \in 1..Len(groups) :
                   g < h =>
                       \A m \in 1..Len(groups[h].group) :
                           ~SimilarPair(groups[g].group[1],
                                        groups[h].group[m])

\* C26 witness: four issues A, C, B, D of distinct ids with A~B, C~B and
\* C~D but neither A~C nor A~D: two groups are returned; B, similar to both
\* representatives, is in the group of the earlier one, A, and D, similar
\* to the member B but not to A, is left outside A's group and joins C
C26_Witness ==
    /\ flt_call.op = "similar"
    /\ Len(flt_in) = 4
    /\ DistinctIds(flt_in)
    /\ ~SimilarPair(flt_in[1], flt_in[2])
    /\ SimilarPair(flt_in[1], flt_in[3])
    /\ SimilarPair(flt_in[2], flt_in[3])
    /\ ~SimilarPair(flt_in[1], flt_in[4])
    /\ SimilarPair(flt_in[3], flt_in[4])
    /\ SimilarPair(flt_in[2], flt_in[4])
    /\ flt_call.groups = <<[key |-> flt_in[1].id,
                            group |-> <<flt_in[1], flt_in[3]>>],
                           [key |-> flt_in[2].id,
                            group |-> <<flt_in[2], flt_in[4]>>]>>

-----------------------------------------------------------------------------
(* Claims about the immutability of a registered rule *)

\* the issues of a result that carry the rule's name and id
IssuesOfRule(issues, rule) ==
    LET Test(issue) == issue.title = rule.name /\ issue.rule_id = rule.id
    IN  SelectSeq(issues, Test)

\* C30: after any sequence of add_rule calls, also calls that add a rule
\* whose id equals that of a registered rule, match_file evaluates every
\* registered rule with the pattern the rule was registered with: the
\* issues of a rule (whose pattern compiled and which is the only rule of
\* its name) are the matches of its own pattern on the lines of the file.
C30_RuleImmutable ==
    pm_call.op = "match" =>
        \A r \in 1..Len(pm_matcher.rules) :
            LET rule == pm_matcher.rules[r]
            IN  (re_compile_ok(rule.pattern)
                 /\ pm_call.language \in rule.languages
                 /\ RulesNamed(rule.name) = {r}) =>
                    IssuesOfRule(pm_call.issues, rule)
                        = rule_issues(rule, rule.pattern, "m.src",
                                      pm_call.lines, 1)

=============================================================================
